---- MODULE Spec2Model ----
(***************************************************************************)
(* Model of the transaction categorization and normalization pipeline of   *)
(* the personal-finance tracker: the rule tables, store normalizer,        *)
(* category classifier and category normalizer of app/constants.py and     *)
(* the bank-format CSV parsers of app/csv_parser.py.                       *)
(*                                                                         *)
(* Text is modelled by TLA+ strings (ASCII), read with Len, SubSeq and \o. *)
(* One character outside ASCII is modelled, written ~ (see LigatureFi).    *)
(***************************************************************************)
EXTENDS Integers, Sequences, FiniteSets, TLC

\* ------------------------------------------------------------------------
\* Python str primitives
\* ------------------------------------------------------------------------

\* A Python value that may be None (a missing CSV cell, an unset mapping
\* entry, "no match"): None, or Some(v) for the value v.
None == [some |-> FALSE]

Some(v) == [some |-> TRUE, val |-> v]

UpperChars == "ABCDEFGHIJKLMNOPQRSTUVWXYZ"

LowerChars == "abcdefghijklmnopqrstuvwxyz"

DigitChars == "0123456789"

CharSet(s) == { SubSeq(s, i, i) : i \in 1..Len(s) }

UpperSet == CharSet(UpperChars)

LowerSet == CharSet(LowerChars)

DigitSet == CharSet(DigitChars)

\* str.isspace() on ASCII, also the regular-expression class \s
SpaceSet == {" ", "\t", "\n", "\r", "\f"}

ToLowerMap == [ c \in UpperSet |-> LET k == CHOOSE i \in 1..26 : SubSeq(UpperChars, i, i) = c
                                   IN  SubSeq(LowerChars, k, k) ]

ToUpperMap == [ c \in LowerSet |-> LET k == CHOOSE i \in 1..26 : SubSeq(LowerChars, i, i) = c
                                   IN  SubSeq(UpperChars, k, k) ]

\* s[a-1:b] for 1 <= a: the characters a..b of s that exist
Slice(s, a, b) ==
  LET e == IF b < Len(s) THEN b ELSE Len(s)
  IN  IF a > e THEN "" ELSE SubSeq(s, a, e)

CharAt(s, i) == SubSeq(s, i, i)

LowerChar(c) == IF c \in UpperSet THEN ToLowerMap[c] ELSE c

UpperChar(c) == IF c \in LowerSet THEN ToUpperMap[c] ELSE c

RECURSIVE Lower(_)
\* str.lower()
Lower(s) == IF s = "" THEN "" ELSE LowerChar(Head(s)) \o Lower(Tail(s))

RECURSIVE LStrip(_)
LStrip(s) == IF s # "" /\ Head(s) \in SpaceSet THEN LStrip(Tail(s)) ELSE s

RECURSIVE RStrip(_)
RStrip(s) ==
  IF s # "" /\ CharAt(s, Len(s)) \in SpaceSet THEN RStrip(Slice(s, 1, Len(s) - 1)) ELSE s

\* str.strip()
Strip(s) == RStrip(LStrip(s))

\* Python's `pat in s`
Contains(pat, s) ==
  pat = "" \/ \E i \in 0..(Len(s) - Len(pat)) : SubSeq(s, i + 1, i + Len(pat)) = pat

\* any(kw in s for kw in kws), kws a sequence of strings
AnyIn(kws, s) == \E k \in 1..Len(kws) : Contains(kws[k], s)

\* The character U+FB01 LATIN SMALL LIGATURE FI, which a TLA+ string cannot
\* hold: the strings of this model write it ~. It is a lower-case letter,
\* str.lower() keeps it, and its title-case form is the two letters "Fi".
LigatureFi == "~"

\* c.title() for a single character
TitleChar(c) == IF c = LigatureFi THEN "Fi" ELSE UpperChar(c)

RECURSIVE TitleFrom(_, _)
\* str.title(): a cased character is title-cased when the previous character
\* is uncased and lower-cased otherwise.
TitleFrom(s, prevCased) ==
  IF s = "" THEN ""
  ELSE LET c     == Head(s)
           cased == c \in UpperSet \/ c \in LowerSet \/ c = LigatureFi
       IN  (IF prevCased THEN LowerChar(c) ELSE TitleChar(c)) \o TitleFrom(Tail(s), cased)

Title(s) == TitleFrom(s, FALSE)

\* s.replace(ch, "") for a one-character ch
RECURSIVE RemoveChar(_, _)
RemoveChar(s, ch) ==
  IF s = "" THEN ""
  ELSE (IF Head(s) = ch THEN "" ELSE Head(s)) \o RemoveChar(Tail(s), ch)

\* s.split(sep) for a one-character sep: the sequence of fields
RECURSIVE Split(_, _)
Split(s, sep) ==
  IF \A i \in 1..Len(s) : CharAt(s, i) # sep THEN <<s>>
  ELSE LET i == CHOOSE j \in 1..Len(s) :
                  CharAt(s, j) = sep /\ \A k \in 1..(j - 1) : CharAt(s, k) # sep
       IN  <<Slice(s, 1, i - 1)>> \o Split(Slice(s, i + 1, Len(s)), sep)

RECURSIVE RunLen(_, _, _)
\* length of the longest run of characters of class cls that starts at s[i]
RunLen(s, i, cls) ==
  IF i <= Len(s) /\ CharAt(s, i) \in cls THEN 1 + RunLen(s, i + 1, cls) ELSE 0

\* whether the literal lit occurs in s at position i
At(s, i, lit) == Slice(s, i, i + Len(lit) - 1) = lit

RECURSIVE ReSubFrom(_, _, _, _)
\* re.sub(pattern, repl, s): the leftmost non-overlapping matches are replaced
\* by repl; mlen[i] is the length of the pattern's match starting at s[i], 0 if
\* there is none (no pattern used here matches the empty string).
ReSubFrom(s, mlen, repl, i) ==
  IF i > Len(s) THEN ""
  ELSE IF mlen[i] > 0 THEN repl \o ReSubFrom(s, mlen, repl, i + mlen[i])
  ELSE CharAt(s, i) \o ReSubFrom(s, mlen, repl, i + 1)

ReSub(s, mlen, repl) == ReSubFrom(s, mlen, repl, 1)

\* ------------------------------------------------------------------------
\* Rule tables (app/constants.py)
\* ------------------------------------------------------------------------

\* The dict literal as written, in source order: <<key, value>>. A key
\* written twice keeps the value written last (see DictGet).
CATEGORY_MAPPING ==
  << <<"other income", "Other Income">>, <<"side hustle", "Other Income">>, <<"tax refund", "Other Income">>,
     <<"paycheck", "Salary">>, <<"wage", "Salary">>, <<"payment/credit", "Other Income">>,
     <<"dining out", "Dining">>, <<"restaurants", "Dining">>, <<"food", "Groceries">>,
     <<"grocery", "Groceries">>, <<"gas & auto", "Gas & Auto">>, <<"automotive", "Gas & Auto">>,
     <<"fuel", "Gas & Auto">>, <<"online shopping", "Shopping">>, <<"retail", "Shopping">>,
     <<"streaming", "Subscriptions">>, <<"internet", "Subscriptions">>, <<"cable", "Subscriptions">>,
     <<"utility", "Utilities">>, <<"utilities", "Utilities">>, <<"electric", "Utilities">>,
     <<"water", "Utilities">>, <<"mortgage", "Rent">>, <<"lease", "Rent">>,
     <<"health", "Health & Fitness">>, <<"fitness", "Health & Fitness">>, <<"gym", "Health & Fitness">>,
     <<"medical", "Health & Fitness">>, <<"movies", "Entertainment">>, <<"concert", "Entertainment">>,
     <<"flight", "Travel">>, <<"hotel", "Travel">>, <<"school", "Education">>,
     <<"tuition", "Education">>, <<"credit card", "Credit Card Payment">>, <<"cc payment", "Credit Card Payment">>,
     <<"loan", "Loan Payment">>, <<"student loan", "Student Loan">>, <<"car", "Car Payment">>,
     <<"auto loan", "Car Payment">>, <<"mobile", "Phone">>, <<"cell phone", "Phone">>,
     <<"home", "Household">>, <<"furniture", "Household">>, <<"gift", "Gifts">>,
     <<"present", "Gifts">>, <<"other expense", "Other">>, <<"miscellaneous", "Other">>,
     <<"misc", "Other">>, <<"fun money", "Entertainment">>, <<"golf", "Entertainment">>,
     <<"grad school", "Education">>, <<"home & hygiene", "Household">>, <<"netflix", "Subscriptions">>,
     <<"spotify", "Subscriptions">>, <<"phone storage", "Subscriptions">>, <<"other expense", "Other Expense">>,
     <<"other income", "Other Income">> >>

EXPENSE_CATEGORIES ==
  << "Dining", "Entertainment", "Gas & Auto", "Gifts",
     "Education", "Groceries", "Health & Fitness", "Household",
     "Subscriptions", "Phone", "Rent", "Shopping",
     "Student Loan", "Travel", "Car Payment", "Utilities",
     "Other Expense" >>

INCOME_CATEGORIES ==
  << "Salary", "Interest", "Refund", "Gift", "Other Income" >>

\* The printable ASCII characters in code-point order, the backquote left out
\* (Python compares str by code point).
AsciiChars ==
  " !\"#$%&'()*+,-./0123456789:;<=>?@ABCDEFGHIJKLMNOPQRSTUVWXYZ[\\]^_abcdefghijklmnopqrstuvwxyz{|}~"

Ord(c) == CHOOSE i \in 1..Len(AsciiChars) : SubSeq(AsciiChars, i, i) = c

RECURSIVE StrLess(_, _)
\* Python's a < b on str
StrLess(a, b) ==
  IF b = "" THEN FALSE
  ELSE IF a = "" THEN TRUE
  ELSE IF Head(a) = Head(b) THEN StrLess(Tail(a), Tail(b))
  ELSE Ord(Head(a)) < Ord(Head(b))

ALL_CATEGORIES == SortSeq(EXPENSE_CATEGORIES \o INCOME_CATEGORIES, StrLess)

\* Pattern rules in declaration order (the dict's iteration order).
STORE_PATTERNS ==
  << <<"target", "Target">>, <<"walmart", "Walmart">>, <<"wlmt", "Walmart">>,
     <<"wmt", "Walmart">>, <<"costco", "Costco">>, <<"sam's club", "Sam's Club">>,
     <<"sams club", "Sam's Club">>, <<"whole foods", "Whole Foods">>, <<"trader joe", "Trader Joe's">>,
     <<"aldi", "Aldi">>, <<"kroger", "Kroger">>, <<"publix", "Publix">>,
     <<"safeway", "Safeway">>, <<"amazon", "Amazon">>, <<"amzn", "Amazon">>,
     <<"ebay", "eBay">>, <<"etsy", "Etsy">>, <<"mcdonald", "McDonald's">>,
     <<"mcdonalds", "McDonald's">>, <<"burger king", "Burger King">>, <<"wendy", "Wendy's">>,
     <<"taco bell", "Taco Bell">>, <<"chipotle", "Chipotle">>, <<"subway", "Subway">>,
     <<"panera", "Panera Bread">>, <<"chick-fil-a", "Chick-fil-A">>, <<"chick fil a", "Chick-fil-A">>,
     <<"kfc", "KFC">>, <<"popeyes", "Popeyes">>, <<"starbucks", "Starbucks">>,
     <<"dunkin", "Dunkin'">>, <<"panda express", "Panda Express">>, <<"olive garden", "Olive Garden">>,
     <<"applebee", "Applebee's">>, <<"red lobster", "Red Lobster">>, <<"buffalo wild", "Buffalo Wild Wings">>,
     <<"shell", "Shell">>, <<"chevron", "Chevron">>, <<"exxon", "Exxon">>,
     <<"mobil", "Mobil">>, <<"bp", "BP">>, <<"texaco", "Texaco">>,
     <<"circle k", "Circle K">>, <<"7-eleven", "7-Eleven">>, <<"7 eleven", "7-Eleven">>,
     <<"costco gas", "Costco Gas">>, <<"netflix", "Netflix">>, <<"spotify", "Spotify">>,
     <<"hulu", "Hulu">>, <<"disney", "Disney+">>, <<"apple.com/bill", "Apple">>,
     <<"apple music", "Apple Music">>, <<"icloud", "iCloud">>, <<"dropbox", "Dropbox">>,
     <<"google storage", "Google One">>, <<"uber", "Uber">>, <<"lyft", "Lyft">>,
     <<"uber eats", "Uber Eats">>, <<"doordash", "DoorDash">>, <<"grubhub", "GrubHub">>,
     <<"verizon", "Verizon">>, <<"at&t", "AT&T">>, <<"t-mobile", "T-Mobile">>,
     <<"sprint", "Sprint">>, <<"xfinity", "Xfinity">>, <<"comcast", "Comcast">>,
     <<"cvs", "CVS">>, <<"walgreens", "Walgreens">>, <<"rite aid", "Rite Aid">>,
     <<"pharmacy", "Pharmacy">>, <<"planet fitness", "Planet Fitness">>, <<"la fitness", "LA Fitness">>,
     <<"24 hour", "24 Hour Fitness">>, <<"cowboy jacks", "Cowboy Jacks">>, <<"byerlys", "Lunds & Byerlys">>,
     <<"wm supercenter", "Walmart">>, <<"wal-mart", "Walmart">>, <<"wholefds", "Whole Foods">>,
     <<"wholefoods", "Whole Foods">>, <<"kohls", "Kohls">> >>

STORE_EXACT_MATCH ==
  << <<"tsq", "Times Square">>, <<"sq", "Square">>, <<"pypl", "PayPal">>,
     <<"amzn", "Amazon">> >>

\* categorize_by_store's chain of `if any(s in store_lower ...)` tests, in
\* source order: <<keywords, category>>.
STORE_CATEGORY_RULES ==
  << << << "hyvee", "hy-vee", "target", "walmart", "costco", "whole foods",
            "trader joe", "kroger", "safeway", "aldi", "publix", "lunds",
            "byerlys" >>,
        "Groceries" >>,
     << << "jimmy john", "scoreboard", "jersey mike", "culvers", "culver's", "cuisine",
            "mcdonald", "burger king", "taco bell", "chipotle", "subway", "kfc",
            "wendys", "chick-fil-a", "popeyes", "canes", "cane's" >>,
        "Dining" >>,
     << << "piada", "kitchen", "mexican", "burger", "pub", "tavern",
            "taqueria", "starbucks", "poke", "restaurant", "cafe", "coffee",
            "pizza", "panera", "spitz", "bistro", "taphouse", "tap house",
            "tap room", "taco", "tacos" >>,
        "Dining" >>,
     << << "kwik trip", "marathon", "speedway", "holliday", "holiday", "shell",
            "chevron", "exxon", "mobil", "bp", "gas", "fuel",
            "costco gas", "tires" >>,
        "Gas & Auto" >>,
     << << "netflix", "spotify", "hulu", "disney", "apple music", "icloud",
            "dropbox", "apple" >>,
        "Subscriptions" >>,
     << << "records", "antiques", "amazon", "ebay", "etsy", "patina",
            "sierra", "kohls", "hollister", "american eagle", "lulu lemon" >>,
        "Shopping" >>,
     << << "cvs", "walgreens", "pharmacy", "gym", "fitness", "planet",
            "planet fit", "planet fitness" >>,
        "Health & Fitness" >>,
     << << "xcel", "energy", "centerpoint", "center point", "quantum fiber", "verizon",
            "at&t", "t-mobile", "sprint", "xfinity", "comcast" >>,
        "Utilities" >>,
     << << "uber", "lyft", "plane", "delta", "airline", "sun country" >>,
        "Travel" >>,
     << << "liquor", "bar", "golf", "course", "club", "cider",
            "cowboy jacks", "wine", "total wine", "beer", "alcohol", "winery",
            "cidery" >>,
        "Entertainment" >> >>

\* categorize_by_keywords' tests on the description that follow the Interest
\* test, in source order: <<keywords, category>>.
KEYWORD_CATEGORY_RULES ==
  << << << "payroll", "salary", "direct deposit", "best buy", "bby", "northern",
            "nte", "pcb", "post consumer brand" >>,
        "Salary" >>,
     << << "rent", "apartment", "housing", "alcott", "whitecap", "nolo" >>,
        "Rent" >>,
     << << "electric", "water", "utility", "gas bill", "internet", "xcel",
            "centerpoint", "quantum" >>,
        "Utilities" >>,
     << << "student loan", "navient", "great lakes", "fedloan" >>,
        "Student Loan" >>,
     << << "auto loan", "car payment", "vehicle loan", "truck loan", "southpoint" >>,
        "Car Payment" >> >>

\* backup_categorize's expense tests, in source order: <<keywords, category>>.
BACKUP_RULES ==
  << << << "restaurant", "cafe", "coffee", "starbucks", "mcdonald", "burger",
            "pizza", "taco", "chipotle", "chick-fil", "culver", "wendy",
            "subway", "panera", "buffalo wild", "applebee", "olive garden", "bar",
            "pub", "grill", "tavern", "brewery", "doordash", "grubhub",
            "uber eats", "dining" >>,
        "Dining" >>,
     << << "grocery", "hy-vee", "trader joe", "whole foods", "aldi", "kroger",
            "target", "costco", "walmart", "supermarket", "food" >>,
        "Groceries" >>,
     << << "gas", "fuel", "shell", "exxon", "mobil", "chevron",
            "bp", "marathon", "speedway", "kwik trip", "holiday" >>,
        "Gas" >>,
     << << "amazon", "ebay", "etsy", "store", "shop", "retail",
            "mall", "clothing", "apparel" >>,
        "Shopping" >>,
     << << "netflix", "spotify", "hulu", "disney", "hbo", "subscription",
            "prime", "youtube", "internet", "phone bill" >>,
        "Subscriptions" >>,
     << << "electric", "water", "gas bill", "utility", "power", "energy" >>,
        "Utilities" >>,
     << << "rent", "lease", "mortgage" >>,
        "Rent" >>,
     << << "gym", "fitness", "doctor", "hospital", "pharmacy", "medical",
            "dental", "health", "clinic" >>,
        "Health & Fitness" >>,
     << << "movie", "cinema", "theater", "concert", "ticket", "game",
            "entertainment" >>,
        "Entertainment" >>,
     << << "airline", "hotel", "airbnb", "uber", "lyft", "taxi",
            "rental car", "flight", "travel" >>,
        "Travel" >>,
     << << "school", "education", "tuition", "university" >>,
        "Education" >>,
     << << "credit card", "payment" >>,
        "Credit Card Payment" >>,
     << << "loan" >>,
        "Loan Payment" >>,
     << << "atm", "cash", "withdrawal" >>,
        "ATM/Cash" >> >>

\* ------------------------------------------------------------------------
\* Store normalizer, category classifier, category normalizer
\* (app/constants.py)
\* ------------------------------------------------------------------------

Range(seq) == { seq[i] : i \in 1..Len(seq) }

\* `key in d` for a dict written as a sequence of <<key, value>>
DictHas(d, key) == \E i \in 1..Len(d) : d[i][1] = key

\* A variant of DictGet under which a dict literal keeps the value written
\* first for a key it names twice.
DictGetFirstWritten(d, key) ==
  LET i == CHOOSE j \in 1..Len(d) :
             d[j][1] = key /\ \A k \in 1..(j - 1) : d[k][1] # key
  IN  d[i][2]

\* d[key]: the value written last for the key
DictGet(d, key) ==
  LET i == CHOOSE j \in 1..Len(d) :
             d[j][1] = key /\ \A k \in (j + 1)..Len(d) : d[k][1] # key
  IN  d[i][2]

\* The first rule of an ordered <<keywords, category>> list one of whose
\* keywords occurs in text; None when no rule matches.
FirstRule(rules, text) ==
  IF \E r \in 1..Len(rules) : AnyIn(rules[r][1], text)
  THEN LET r == CHOOSE j \in 1..Len(rules) :
                  AnyIn(rules[j][1], text) /\ \A k \in 1..(j - 1) : ~AnyIn(rules[k][1], text)
       IN  Some(rules[r][2])
  ELSE None

\* Match lengths of the patterns normalize_store removes, at position i of s.

\* \*[A-Z0-9]+
MatchStarCode(s, i) ==
  LET n == RunLen(s, i + 1, UpperSet \cup DigitSet)
  IN  IF At(s, i, "*") /\ n >= 1 THEN 1 + n ELSE 0

\* #\d+
MatchHashDigits(s, i) ==
  LET n == RunLen(s, i + 1, DigitSet)
  IN  IF At(s, i, "#") /\ n >= 1 THEN 1 + n ELSE 0

\* \s+\d{4,}
MatchSpaceDigits(s, i) ==
  LET w == RunLen(s, i, SpaceSet)
      d == RunLen(s, i + w, DigitSet)
  IN  IF w >= 1 /\ d >= 4 THEN w + d ELSE 0

\* Mktpl[ace]*\s*
MatchMktpl(s, i) ==
  IF At(s, i, "Mktpl")
  THEN LET a == RunLen(s, i + 5, {"a", "c", "e"})
       IN  5 + a + RunLen(s, i + 5 + a, SpaceSet)
  ELSE 0

\* Pmts?\s*
MatchPmt(s, i) ==
  IF At(s, i, "Pmt")
  THEN LET p == IF At(s, i + 3, "s") THEN 4 ELSE 3
       IN  p + RunLen(s, i + p, SpaceSet)
  ELSE 0

\* .com and .Com: the unescaped dot matches any character but a newline
MatchAnyThen(s, i, lit) ==
  IF CharAt(s, i) # "\n" /\ At(s, i + 1, lit) THEN 1 + Len(lit) ELSE 0

\* $ without MULTILINE: the end of the string, or just before a final newline
AtEnd(s, i) == i = Len(s) + 1 \/ (i = Len(s) /\ CharAt(s, i) = "\n")

\* \s+{suffix}\.?$ with IGNORECASE; suffix is given lower-cased
MatchSuffix(s, i, suffix) ==
  LET w    == RunLen(s, i, SpaceSet)
      j    == i + w
      e    == j + Len(suffix)
      word == w >= 1 /\ Lower(Slice(s, j, e - 1)) = suffix
  IN  IF word /\ At(s, e, ".") /\ AtEnd(s, e + 1) THEN w + Len(suffix) + 1
      ELSE IF word /\ AtEnd(s, e) THEN w + Len(suffix)
      ELSE 0

\* \s+
MatchSpaces(s, i) == RunLen(s, i, SpaceSet)

\* The suffixes list of normalize_store, lower-cased for the IGNORECASE match.
SUFFIXES == << "inc", "llc", "corp", "ltd", "co", "company", "us" >>

\* re.sub(r'\s+suffix\.?$', '', s, flags=re.IGNORECASE)
StripSuffix(s, suffix) == ReSub(s, [i \in 1..Len(s) |-> MatchSuffix(s, i, suffix)], "")

RECURSIVE StripSuffixes(_, _)
\* for suffix in suffixes: cleaned = re.sub(...), from the k-th suffix on
StripSuffixes(s, k) ==
  IF k > Len(SUFFIXES) THEN s ELSE StripSuffixes(StripSuffix(s, SUFFIXES[k]), k + 1)

\* The re.sub calls of normalize_store's step 3, in source order
SubStarCode(s) == ReSub(s, [i \in 1..Len(s) |-> MatchStarCode(s, i)], "")

SubHashDigits(s) == ReSub(s, [i \in 1..Len(s) |-> MatchHashDigits(s, i)], "")

SubSpaceDigits(s) == ReSub(s, [i \in 1..Len(s) |-> MatchSpaceDigits(s, i)], "")

SubMktpl(s) == ReSub(s, [i \in 1..Len(s) |-> MatchMktpl(s, i)], "")

SubPmt(s) == ReSub(s, [i \in 1..Len(s) |-> MatchPmt(s, i)], "")

SubAnyThen(s, lit) == ReSub(s, [i \in 1..Len(s) |-> MatchAnyThen(s, i, lit)], "")

SubSpaces(s) == ReSub(s, [i \in 1..Len(s) |-> MatchSpaces(s, i)], " ")

\* Step 3 of normalize_store: the cleaned text, before title-casing
CleanStore(original) ==
  Strip(SubSpaces(StripSuffixes(SubAnyThen(SubAnyThen(SubPmt(SubMktpl(
    SubSpaceDigits(SubHashDigits(SubStarCode(original))))), "com"), "Com"), 1)))

\* A variant of FirstPattern that takes the pattern declared last.
LastPattern(store_lower) ==
  CHOOSE j \in 1..Len(STORE_PATTERNS) :
    /\ Contains(STORE_PATTERNS[j][1], store_lower)
    /\ \A k \in (j + 1)..Len(STORE_PATTERNS) : ~Contains(STORE_PATTERNS[k][1], store_lower)

\* The first pattern, in declaration order, that occurs in store_lower
FirstPattern(store_lower) ==
  CHOOSE j \in 1..Len(STORE_PATTERNS) :
    /\ Contains(STORE_PATTERNS[j][1], store_lower)
    /\ \A k \in 1..(j - 1) : ~Contains(STORE_PATTERNS[k][1], store_lower)

\* A variant of TitleOr without the fallback to the original.
TitleOfCleaned(cleaned, original) == Title(cleaned)

\* return cleaned.title() if cleaned else original.title()
TitleOr(cleaned, original) == IF cleaned # "" THEN Title(cleaned) ELSE Title(original)

\* normalize_store from `original = store.strip()` on
NormalizeStripped(original, store_lower) ==
  IF DictHas(STORE_EXACT_MATCH, store_lower) THEN DictGet(STORE_EXACT_MATCH, store_lower)
  ELSE IF \E j \in 1..Len(STORE_PATTERNS) : Contains(STORE_PATTERNS[j][1], store_lower)
    THEN STORE_PATTERNS[FirstPattern(store_lower)][2]
  ELSE TitleOr(CleanStore(original), original)

normalize_store(store) ==
  IF store = "" THEN "" ELSE NormalizeStripped(Strip(store), Lower(Strip(store)))

categorize_by_store(store_name) == FirstRule(STORE_CATEGORY_RULES, Lower(store_name))

categorize_by_keywords(description, transaction_type) ==
  LET desc_lower == Lower(description)
      type_lower == Lower(transaction_type)
  IN  IF Contains("interest", desc_lower) \/ Contains("interest", type_lower)
        THEN Some("Interest")
      ELSE FirstRule(KEYWORD_CATEGORY_RULES, desc_lower)

\* Python truth of a str-or-None value
Truthy(v) == v.some /\ v.val # ""

\* A variant of suggest_category without the final default: what the two
\* classifiers gave, empty when neither matched.
suggest_category_no_default(store, description, transaction_type) ==
  LET by_store == categorize_by_store(store)
      by_kw    == categorize_by_keywords(description, transaction_type)
  IN  IF Truthy(by_store) THEN by_store.val
      ELSE IF Truthy(by_kw) THEN by_kw.val
      ELSE ""

\* A variant of suggest_category that asks the keyword rules first.
suggest_category_keywords_first(store, description, transaction_type) ==
  LET by_store == categorize_by_store(store)
      by_kw    == categorize_by_keywords(description, transaction_type)
  IN  IF Truthy(by_kw) THEN by_kw.val
      ELSE IF Truthy(by_store) THEN by_store.val
      ELSE "Other Expense"

suggest_category(store, description, transaction_type) ==
  LET by_store == categorize_by_store(store)
      by_kw    == categorize_by_keywords(description, transaction_type)
  IN  IF Truthy(by_store) THEN by_store.val
      ELSE IF Truthy(by_kw) THEN by_kw.val
      ELSE "Other Expense"

\* The first standard category whose lower-cased form is category_lower;
\* None when there is none.
MatchStandard(category_lower) ==
  IF \E i \in 1..Len(ALL_CATEGORIES) : category_lower = Lower(ALL_CATEGORIES[i])
  THEN Some(ALL_CATEGORIES[CHOOSE i \in 1..Len(ALL_CATEGORIES) :
                             /\ category_lower = Lower(ALL_CATEGORIES[i])
                             /\ \A k \in 1..(i - 1) : category_lower # Lower(ALL_CATEGORIES[k])])
  ELSE None

\* A variant of normalize_category that looks in the standard categories
\* before the mapping.
normalize_category_standard_first(category) ==
  IF category = "" THEN "Other Expense"
  ELSE IF MatchStandard(Strip(Lower(category))).some
    THEN MatchStandard(Strip(Lower(category))).val
  ELSE IF DictHas(CATEGORY_MAPPING, Strip(Lower(category)))
    THEN DictGet(CATEGORY_MAPPING, Strip(Lower(category)))
  ELSE Title(category)

normalize_category(category) ==
  IF category = "" THEN "Other Expense"
  ELSE LET category_lower == Strip(Lower(category))
       IN  IF DictHas(CATEGORY_MAPPING, category_lower)
             THEN DictGet(CATEGORY_MAPPING, category_lower)
           ELSE IF MatchStandard(category_lower).some THEN MatchStandard(category_lower).val
           ELSE Title(category)

\* A variant of is_valid_category that tests the category as written.
is_valid_category_as_written(category) ==
  category # "" /\ category \in Range(ALL_CATEGORIES)

is_valid_category(category) ==
  IF category = "" THEN FALSE
  ELSE normalize_category(category) \in Range(ALL_CATEGORIES)

get_transaction_type(category) ==
  IF normalize_category(category) \in Range(INCOME_CATEGORIES) THEN "income" ELSE "expense"

backup_categorize(store, description, transaction_type) ==
  LET text == Lower(store \o " " \o description)
  IN  IF Contains("salary", text) \/ Contains("payroll", text) \/ Contains("direct deposit", text)
        THEN "Salary"
      ELSE IF Contains("interest", text) THEN "Interest"
      ELSE IF Contains("refund", text) \/ Contains("reimbursement", text) THEN "Refund"
      ELSE IF Contains("transfer", text) /\ transaction_type = "income" THEN "Transfer"
      ELSE IF FirstRule(BACKUP_RULES, text).some THEN FirstRule(BACKUP_RULES, text).val
      ELSE "Other"

\* ------------------------------------------------------------------------
\* Values and conversions used by the parsers (app/csv_parser.py)
\* ------------------------------------------------------------------------

\* The outcome of an expression that may raise: Ok(v), or Raised(exception).
Ok(v) == [ok |-> TRUE, val |-> v]

Raised(e) == [ok |-> FALSE, exc |-> e]

\* A Python float: a finite decimal value (-1)^neg * mant / 10^frac with no
\* trailing fraction zero, an infinity, or nan. Binary rounding is not
\* modelled; the values compared here are short decimals.
Float(neg, mant, frac) == [kind |-> "num", neg |-> neg, mant |-> mant, frac |-> frac]

FloatNan == [kind |-> "nan", neg |-> FALSE, mant |-> 0, frac |-> 0]

FloatInf(neg) == [kind |-> "inf", neg |-> neg, mant |-> 0, frac |-> 0]

RECURSIVE FloatNorm(_)
FloatNorm(v) ==
  IF v.mant = 0 THEN Float(v.neg, 0, 0)
  ELSE IF v.frac > 0 /\ v.mant % 10 = 0 THEN FloatNorm(Float(v.neg, v.mant \div 10, v.frac - 1))
  ELSE v

\* amount < 0 (false for nan and for -0.0)
FloatLt0(v) == v.kind # "nan" /\ v.neg /\ (v.kind = "inf" \/ v.mant > 0)

\* amount >= 0 (false for nan)
FloatGe0(v) == v.kind # "nan" /\ ~FloatLt0(v)

\* abs(amount)
FloatAbs(v) == [v EXCEPT !.neg = FALSE]

\* a == b on floats (nan equals nothing, -0.0 equals 0.0)
FloatEq(a, b) ==
  /\ a.kind # "nan" /\ b.kind # "nan"
  /\ a.kind = b.kind /\ a.mant = b.mant /\ a.frac = b.frac
  /\ (a.neg = b.neg \/ (a.kind = "num" /\ a.mant = 0))

IsDigits(s) == s # "" /\ \A i \in 1..Len(s) : CharAt(s, i) \in DigitSet

DigitVal(c) == (CHOOSE i \in 1..10 : SubSeq(DigitChars, i, i) = c) - 1

RECURSIVE DigitsToNat(_)
\* int(s) for a string of decimal digits ("" gives 0)
DigitsToNat(s) ==
  IF s = "" THEN 0 ELSE 10 * DigitsToNat(Slice(s, 1, Len(s) - 1)) + DigitVal(CharAt(s, Len(s)))

\* float(s) on the literals [sign] digits [. [digits]], [sign] . digits,
\* [sign] inf | infinity | nan, with surrounding whitespace ignored; anything
\* else raises ValueError. (Exponent and underscore literals are not drawn as
\* inputs.)
ParseFloat(s) ==
  LET t     == Strip(s)
      neg   == At(t, 1, "-")
      body  == IF At(t, 1, "-") \/ At(t, 1, "+") THEN Slice(t, 2, Len(t)) ELSE t
      parts == Split(body, ".")
      ip    == parts[1]
      fp    == IF Len(parts) = 2 THEN parts[2] ELSE ""
      word  == Lower(body)
  IN  IF word = "nan" THEN Ok(FloatNan)
      ELSE IF word \in {"inf", "infinity"} THEN Ok(FloatInf(neg))
      ELSE IF /\ Len(parts) <= 2
              /\ ip \o fp # ""
              /\ ip = "" \/ IsDigits(ip)
              /\ fp = "" \/ IsDigits(fp)
        THEN Ok(FloatNorm(Float(neg, DigitsToNat(ip \o fp), Len(fp))))
      ELSE Raised("ValueError")

\* float(text.replace(",", "").replace("$", ""))
ParseAmount(text) == ParseFloat(RemoveChar(RemoveChar(text, ","), "$"))

\* strptime directive %m: 1[0-2]|0[1-9]|[1-9]
MonthField(t) ==
  IF IsDigits(t) /\ Len(t) <= 2 /\ DigitsToNat(t) \in 1..12 THEN DigitsToNat(t) ELSE 0

\* strptime directive %d: 3[0-1]|[1-2]\d|0[1-9]|[1-9]| [1-9]
DayField(t) ==
  IF IsDigits(t) /\ Len(t) <= 2 /\ DigitsToNat(t) \in 1..31 THEN DigitsToNat(t)
  ELSE IF Len(t) = 2 /\ At(t, 1, " ") /\ CharAt(t, 2) \in (DigitSet \ {"0"})
    THEN DigitsToNat(Slice(t, 2, 2))
  ELSE 0

\* strptime directive %Y: \d\d\d\d; -1 when the field does not match
YearField(t) == IF IsDigits(t) /\ Len(t) = 4 THEN DigitsToNat(t) ELSE -1

\* strptime directive %y: \d\d, 69..99 in the 1900s and 00..68 in the 2000s
ShortYearField(t) ==
  IF IsDigits(t) /\ Len(t) = 2
  THEN (IF DigitsToNat(t) >= 69 THEN 1900 ELSE 2000) + DigitsToNat(t)
  ELSE -1

IsLeap(y) == y % 4 = 0 /\ (y % 100 # 0 \/ y % 400 = 0)

DaysInMonth(y, m) ==
  IF m = 2 THEN (IF IsLeap(y) THEN 29 ELSE 28)
  ELSE IF m \in {4, 6, 9, 11} THEN 30 ELSE 31

\* datetime.strptime(date_str, fmt).date() for the formats of parse_date:
\* fmt is <<separator, directives>>, the directives being three of Y y m d.
Strptime(date_str, fmt) ==
  LET f   == Split(date_str, fmt[1])
      dir == fmt[2]
      pos(x) == CHOOSE i \in 1..3 : dir[i] = x
      y   == IF \E i \in 1..3 : dir[i] = "Y" THEN YearField(f[pos("Y")])
             ELSE ShortYearField(f[pos("y")])
      m   == MonthField(f[pos("m")])
      d   == DayField(f[pos("d")])
  IN  IF Len(f) = 3 /\ y >= 1 /\ m >= 1 /\ d >= 1 /\ d <= DaysInMonth(y, m)
        THEN Ok([year |-> y, month |-> m, day |-> d])
      ELSE Raised("ValueError")

\* A variant of DATE_FORMATS that tries the day-first formats before the
\* month-first ones.
DATE_FORMATS_day_first ==
  << <<"-", <<"Y", "m", "d">> >>, <<"/", <<"d", "m", "Y">> >>, <<"/", <<"d", "m", "y">> >>,
     <<"/", <<"m", "d", "Y">> >>, <<"/", <<"m", "d", "y">> >> >>

\* The formats parse_date tries, in order:
\* %Y-%m-%d, %m/%d/%Y, %m/%d/%y, %d/%m/%Y, %d/%m/%y
DATE_FORMATS ==
  << <<"-", <<"Y", "m", "d">> >>, <<"/", <<"m", "d", "Y">> >>, <<"/", <<"m", "d", "y">> >>,
     <<"/", <<"d", "m", "Y">> >>, <<"/", <<"d", "m", "y">> >> >>

parse_date(date_str) ==
  IF \E k \in 1..Len(DATE_FORMATS) : Strptime(date_str, DATE_FORMATS[k]).ok
  THEN Strptime(date_str, DATE_FORMATS[CHOOSE k \in 1..Len(DATE_FORMATS) :
                            /\ Strptime(date_str, DATE_FORMATS[k]).ok
                            /\ \A j \in 1..(k - 1) : ~Strptime(date_str, DATE_FORMATS[j]).ok])
  ELSE Raised("ValueError")

\* csv.reader on one line: the cells between commas, a line-end \r dropped.
\* No quoting is modelled: the inputs contain no double quote.
CsvCells(line) ==
  LET l == IF line # "" /\ CharAt(line, Len(line)) = "\r" THEN Slice(line, 1, Len(line) - 1)
           ELSE line
  IN  IF l = "" THEN <<>> ELSE Split(l, ",")

\* dict(zip(fieldnames, cells)), with None for the fields a short row lacks
CsvDict(fieldnames, cells) ==
  [ name \in Range(fieldnames) |->
      LET i == CHOOSE j \in 1..Len(fieldnames) :
                 fieldnames[j] = name /\ \A k \in (j + 1)..Len(fieldnames) : fieldnames[k] # name
      IN  IF i <= Len(cells) THEN Some(cells[i]) ELSE None ]

\* list(csv.DictReader(StringIO(content))): the first line gives the field
\* names; every later non-empty line gives one row.
DictReader(content) ==
  LET lines      == Split(content, "\n")
      fieldnames == CsvCells(lines[1])
      nonempty   == SelectSeq(Tail(lines), LAMBDA l : CsvCells(l) # <<>>)
  IN  [ i \in 1..Len(nonempty) |-> CsvDict(fieldnames, CsvCells(nonempty[i])) ]

\* row.get(key, default)
RowGet(row, key, default) == IF key \in DOMAIN row THEN row[key] ELSE Some(default)

\* ------------------------------------------------------------------------
\* The row handlers of the three parsers: the body of each `for row in
\* reader` loop, `try` block included. A handler yields how the iteration
\* ended, [kind, at, txn]: "append" (the transaction txn[1] is appended, at
\* the source line of the append), "continue" (the row is skipped, at the
\* source line of the `continue`), or "except" (an exception was caught and
\* printed, at the line of the handler, and the row is skipped).
\* ------------------------------------------------------------------------

Appended(line, t) == [kind |-> "append", at |-> line, txn |-> <<t>>]

Continued(line) == [kind |-> "continue", at |-> line, txn |-> <<>>]

Excepted(line) == [kind |-> "except", at |-> line, txn |-> <<>>]

\* `if col` for an entry of column_mapping: unset entries are None, and an
\* empty name is false as well.
Mapped(col) == col.some /\ col.val # ""

\* The dict each parser appends
Transaction(date, store, description, original_type, amount, type, suggested_category) ==
  [ date |-> date, store |-> store, description |-> description,
    original_type |-> original_type, amount |-> amount, type |-> type,
    suggested_category |-> suggested_category ]

\* A variant of SofiTransaction that names the bank as the store of an
\* interest payment.
SofiTransactionBankStore(date, store, trans_type, amount, income_expense_type, suggested_category) ==
  Transaction(date, IF suggested_category = "Interest" THEN "SoFi" ELSE store, "",
              trans_type, amount, income_expense_type, suggested_category)

\* parse_sofi_csv's transactions.append({...})
SofiTransaction(date, store, trans_type, amount, income_expense_type, suggested_category) ==
  Transaction(date, store, "", trans_type, amount, income_expense_type, suggested_category)

\* parse_capital_one_csv's transactions.append({...})
CapitalOneTransaction(date, store, original_category, amount, income_expense_type, suggested_category) ==
  Transaction(date, store, "", original_category, amount, income_expense_type,
              suggested_category)

\* parse_generic_csv's transactions.append({...})
GenericTransaction(date, store, raw_description, description_col, amount, income_expense_type, suggested_category) ==
  Transaction(date, store, IF Mapped(description_col) THEN raw_description ELSE "", "",
              amount, income_expense_type, suggested_category)

\* A variant of ParserCategory that takes the backup classifier's answer.
ParserCategoryFromBackup(store, description, type_hint, income_expense_type) ==
  backup_categorize(store, description, income_expense_type)

\* The category a parser attaches: the normalized suggestion, then the
\* FAILSAFE backup and the final fallback while it is still empty.
ParserCategory(store, description, type_hint, income_expense_type) ==
  LET c1 == normalize_category(suggest_category(store, description, type_hint))
      c2 == IF c1 = "" THEN backup_categorize(store, description, income_expense_type) ELSE c1
  IN  IF c2 = "" THEN (IF income_expense_type = "income" THEN "Other Income" ELSE "Other")
      ELSE c2

\* A variant of IsPosted that compares the case as written.
IsPostedExact(status) == status = "posted"

\* A variant of IsPosted that turns away pending rows only.
IsNotPending(status) == Lower(status) # "pending"

\* if status.lower() != "posted": continue
IsPosted(status) == Lower(status) = "posted"

\* A variant of UseDebit under which a populated Credit takes the row.
UseDebitAlone(debit_str, credit_str) == debit_str # "" /\ credit_str = ""

\* if debit_str and debit_str != "": ... elif credit_str and credit_str != "":
UseDebit(debit_str, credit_str) == debit_str # ""

\* A variant of SignedType that counts a zero amount as an expense.
SignedTypeZeroExpense(amount) ==
  IF FloatLt0(amount) \/ (amount.kind = "num" /\ amount.mant = 0) THEN "expense" ELSE "income"

\* Handle sign: positive = income, negative = expense
SignedType(amount) == IF FloatLt0(amount) THEN "expense" ELSE "income"

SignedAmount(amount) == IF FloatLt0(amount) THEN FloatAbs(amount) ELSE amount

sofi_row(row) ==
  LET date_cell   == RowGet(row, "Date", "")
      desc_cell   == RowGet(row, "Description", "")
      type_cell   == RowGet(row, "Type", "")
      amount_cell == RowGet(row, "Amount", "0")
      status_cell == RowGet(row, "Status", "")
      date_str             == Strip(date_cell.val)
      original_description == Strip(desc_cell.val)
      trans_type           == Strip(type_cell.val)
      amount_str           == Strip(amount_cell.val)
      status               == Strip(status_cell.val)
      parsed               == ParseAmount(amount_str)
      income_expense_type  == SignedType(parsed.val)
      amount               == SignedAmount(parsed.val)
      store                == normalize_store(original_description)
      suggested_category   ==
        ParserCategory(store, original_description, trans_type, income_expense_type)
      date                 == parse_date(date_str)
  IN  IF \E c \in {date_cell, desc_cell, type_cell, amount_cell, status_cell} : ~c.some
        THEN Excepted(194)
      ELSE IF ~IsPosted(status) THEN Continued(156)
      ELSE IF ~parsed.ok THEN Excepted(194)
      ELSE IF ~date.ok THEN Excepted(194)
      ELSE Appended(185, SofiTransaction(date.val, store, trans_type, amount,
                                         income_expense_type, suggested_category))

\* A variant of IsAutopay that knows the card's own payment text only.
IsAutopayOwnPayment(original_description) ==
  Contains("capital one autopay pymt", Lower(original_description))

\* "autopay" in original_description.lower() or "capital one autopay pymt" in ...
IsAutopay(original_description) ==
  \/ Contains("autopay", Lower(original_description))
  \/ Contains("capital one autopay pymt", Lower(original_description))

capital_one_row(row) ==
  LET date_cell   == RowGet(row, "Transaction Date", "")
      desc_cell   == RowGet(row, "Description", "")
      debit_cell  == RowGet(row, "Debit", "")
      credit_cell == RowGet(row, "Credit", "")
      cat_cell    == RowGet(row, "Category", "")
      date_str             == Strip(date_cell.val)
      original_description == Strip(desc_cell.val)
      debit_str            == Strip(debit_cell.val)
      credit_str           == Strip(credit_cell.val)
      original_category    == Strip(cat_cell.val)
      use_debit            == UseDebit(debit_str, credit_str)
      parsed               == ParseAmount(IF use_debit THEN debit_str ELSE credit_str)
      income_expense_type  == IF use_debit THEN "expense" ELSE "income"
      store                == normalize_store(original_description)
      suggested_category   ==
        ParserCategory(store, original_description, original_category, income_expense_type)
      date                 == parse_date(date_str)
  IN  IF \E c \in {date_cell, desc_cell, debit_cell, credit_cell, cat_cell} : ~c.some
        THEN Excepted(262)
      ELSE IF ~use_debit /\ credit_str = "" THEN Continued(230)
      ELSE IF ~parsed.ok THEN Excepted(262)
      ELSE IF IsAutopay(original_description) THEN Continued(237)
      ELSE IF ~date.ok THEN Excepted(262)
      ELSE Appended(253, CapitalOneTransaction(date.val, store, original_category, parsed.val,
                                               income_expense_type, suggested_category))

generic_row(row, column_mapping) ==
  LET date_col        == column_mapping.date_column
      amount_col      == column_mapping.amount_column
      debit_col       == column_mapping.debit_column
      credit_col      == column_mapping.credit_column
      store_col       == column_mapping.store_column
      description_col == column_mapping.description_column
      use_two_cols    == column_mapping.use_two_columns
      date_cell   == RowGet(row, date_col.val, "")
      date_str    == Strip(date_cell.val)
      trans_date  == parse_date(date_str)
      debit_cell  == IF Mapped(debit_col) THEN RowGet(row, debit_col.val, "") ELSE Some("")
      credit_cell == IF Mapped(credit_col) THEN RowGet(row, credit_col.val, "") ELSE Some("")
      debit_str   == Strip(debit_cell.val)
      credit_str  == Strip(credit_cell.val)
      amount_cell == RowGet(row, amount_col.val, "")
      amount_str  == Strip(amount_cell.val)
      use_debit   == UseDebit(debit_str, credit_str)
      parsed      == ParseAmount(IF use_two_cols
                                 THEN (IF use_debit THEN debit_str ELSE credit_str)
                                 ELSE amount_str)
      income_expense_type ==
        IF use_two_cols THEN (IF use_debit THEN "expense" ELSE "income")
        ELSE SignedType(parsed.val)
      amount      == IF use_two_cols THEN parsed.val ELSE SignedAmount(parsed.val)
      \* the first part of the try block, up to the amount: Ok(TRUE), or how
      \* the iteration ended
      amount_step ==
        IF use_two_cols
        THEN IF ~debit_cell.some THEN Excepted(387)
             ELSE IF ~credit_cell.some THEN Excepted(387)
             ELSE IF ~use_debit /\ credit_str = "" THEN Continued(326)
             ELSE IF ~parsed.ok THEN Excepted(387)
             ELSE Ok(TRUE)
        ELSE IF ~Mapped(amount_col) THEN Excepted(387)
             ELSE IF ~amount_cell.some THEN Excepted(387)
             ELSE IF amount_str = "" THEN Continued(333)
             ELSE IF ~parsed.ok THEN Excepted(387)
             ELSE Ok(TRUE)
      store_in_row == Mapped(store_col) /\ store_col.val \in DOMAIN row
      desc_in_row  == Mapped(description_col) /\ description_col.val \in DOMAIN row
      store_cell   == IF store_in_row THEN row[store_col.val] ELSE Some("")
      desc_cell    == IF desc_in_row THEN row[description_col.val] ELSE Some("")
      stripped_store  == Strip(store_cell.val)
      raw_description == Strip(desc_cell.val)
      raw_store    == IF stripped_store = "" /\ raw_description # "" THEN raw_description
                      ELSE IF stripped_store = "" THEN "Unknown Store"
                      ELSE stripped_store
      store        == normalize_store(raw_store)
      suggested_category == ParserCategory(store, raw_description, "", income_expense_type)
  IN  IF ~date_cell.some THEN Excepted(387)
      ELSE IF date_str = "" THEN Continued(310)
      ELSE IF ~trans_date.ok THEN Excepted(387)
      ELSE IF "ok" \notin DOMAIN amount_step THEN amount_step
      ELSE IF ~store_cell.some THEN Excepted(387)
      ELSE IF ~desc_cell.some THEN Excepted(387)
      ELSE Appended(378, GenericTransaction(trans_date.val, store, raw_description,
                                            description_col, amount, income_expense_type,
                                            suggested_category))

\* detect_bank_type: the bank named by the first line of the content
\* A variant of detect_bank_type that tests the SoFi markers first.
detect_bank_type_sofi_first(content) ==
  LET first_line == Lower(Split(content, "\n")[1])
  IN  IF Contains("current balance", first_line) /\ Contains("status", first_line)
        THEN "sofi"
      ELSE IF \/ Contains("card no.", first_line)
              \/ (Contains("debit", first_line) /\ Contains("credit", first_line))
        THEN "capital_one"
      ELSE "unknown"

detect_bank_type(content) ==
  LET first_line == Lower(Split(content, "\n")[1])
  IN  IF \/ Contains("card no.", first_line)
         \/ (Contains("debit", first_line) /\ Contains("credit", first_line))
        THEN "capital_one"
      ELSE IF Contains("current balance", first_line) /\ Contains("status", first_line)
        THEN "sofi"
      ELSE "unknown"

\* ------------------------------------------------------------------------
\* Inputs: the calls parse_csv(content, bank_type, column_mapping) explored
\* ------------------------------------------------------------------------

\* The largest number of data rows of a CSV built from a pool of whole rows.
MaxRows == 2

RECURSIVE Join(_, _)
\* sep.join(parts)
Join(parts, sep) ==
  IF Len(parts) = 0 THEN ""
  ELSE IF Len(parts) = 1 THEN parts[1]
  ELSE parts[1] \o sep \o Join(Tail(parts), sep)

\* The CSV text with the given header line and data lines
Csv(header, lines) == Join(<<header>> \o lines, "\n") \o "\n"

\* The sequences of at most n elements of the set S
SeqsUpTo(S, n) == UNION { [1..k -> S] : k \in 0..n }

SofiHeader == "Date,Description,Type,Amount,Current balance,Status"

SofiDates == {"01/02/2024", "13/45/2024", ""}

SofiDescriptions == {"STARBUCKS #123", "Payroll Co", "Interest earned", "ACME LLC", ""}

SofiTypes == {"Debit Card", "Interest Earned", "Direct Deposit"}

SofiAmounts == {"4.50", "-4.50", "-1,500.00", "0", "nan", "abc", ""}

SofiStatuses == {"Posted", " POSTED ", "Pending", ""}

\* Every one-row SoFi export over the field pools
SofiOneRow ==
  { Csv(SofiHeader, <<Join(<<d, s, t, a, "100.00", st>>, ",")>>) :
      d \in SofiDates, s \in SofiDescriptions, t \in SofiTypes,
      a \in SofiAmounts, st \in SofiStatuses }

\* Whole rows for the exports of several rows: an expense, an income, a
\* pending row, a bad date, a bad amount, a row that lacks its last cells, two
\* rows that differ in Type alone, and an interest payment.
SofiPool ==
  { "01/02/2024,STARBUCKS #123,Debit Card,-4.50,100.00,Posted",
    "01/03/2024,Payroll Co,Direct Deposit,1500.00,1600.00,Posted",
    "01/03/2024,Payroll Co,Direct Deposit,1500.00,1600.00,Pending",
    "2024-02-30,ACME LLC,Debit Card,-20.00,80.00,Posted",
    "01/05/2024,ACME LLC,Debit Card,twenty,80.00,Posted",
    "01/06/2024,ACME LLC,Debit Card",
    "01/07/2024,ACME LLC,Interest Earned,0.12,80.12,Posted",
    "01/07/2024,ACME LLC,Deposit,0.12,80.12,Posted",
    "01/08/2024,Interest earned,Deposit,0.05,80.17,Posted" }

SofiManyRows == { Csv(SofiHeader, ls) : ls \in SeqsUpTo(SofiPool, MaxRows) }

\* The scenario of the specification's section 8
ScenarioCsv ==
  Csv(SofiHeader, << "01/02/2024, STARBUCKS #123, Debit Card, 4.50, 100.00, Posted",
                     "01/03/2024, Payroll Co, Direct Deposit, 1500.00, 1600.00, Pending" >>)

\* SoFi exports whose header lacks a column the parser reads
SofiShortHeader ==
  { Csv("Date,Description,Type,Current balance,Status",
        <<Join(<<d, "ACME LLC", "Debit Card", "100.00", st>>, ",")>>) :
      d \in SofiDates, st \in SofiStatuses }
  \cup { Csv("Date,Type,Amount,Current balance,Status",
             <<"01/02/2024,Debit Card,-4.50,100.00,Posted">>),
         Csv("Description,Type,Amount,Current balance,Status",
             <<"ACME LLC,Debit Card,-4.50,100.00,Posted">>),
         Csv("Date,Description,Type,Amount,Current balance",
             <<"01/02/2024,ACME LLC,Debit Card,-4.50,100.00">>) }

CapitalOneHeader == "Transaction Date,Posted Date,Card No.,Description,Category,Debit,Credit"

CapitalOneDates == {"2024-01-02", "2024-01-32"}

CapitalOneDescriptions ==
  {"STARBUCKS #123", "ACME LLC", "CAPITAL ONE AUTOPAY PYMT", "Autopay thank you", ""}

CapitalOneCategories == {"Dining", "Interest Charge", "Payment/Credit"}

CapitalOneDebits == {"", "12.34", "-5.00", "0", "abc"}

CapitalOneCredits == {"", "25.00", "-7.00", "x"}

CapitalOneOneRow ==
  { Csv(CapitalOneHeader, <<Join(<<d, "2024-01-03", "1234", s, c, db, cr>>, ",")>>) :
      d \in CapitalOneDates, s \in CapitalOneDescriptions, c \in CapitalOneCategories,
      db \in CapitalOneDebits, cr \in CapitalOneCredits }

CapitalOnePool ==
  { "2024-01-02,2024-01-03,1234,STARBUCKS #123,Dining,12.34,",
    "2024-01-04,2024-01-05,1234,CAPITAL ONE AUTOPAY PYMT,Payment/Credit,,500.00",
    "2024-01-06,2024-01-07,1234,ACME LLC,Merchandise,,25.00",
    "2024-01-06,2024-01-07,1234,ACME LLC,Interest Charge,,25.00",
    "2024-01-08,2024-01-09,1234,ACME LLC,Merchandise,,",
    "2024-01-32,2024-01-09,1234,ACME LLC,Merchandise,3.00,",
    "2024-01-10,2024-01-11,1234,ACME LLC" }

CapitalOneManyRows == { Csv(CapitalOneHeader, ls) : ls \in SeqsUpTo(CapitalOnePool, MaxRows) }

GenericHeader == "When,Payee,Memo,Amt,Out,In,Cat"

GenericDates == {"2024-01-02", "31/31/2024", ""}

GenericStores == {"Whole Foods Mkt", "Landlord LLC", ""}

GenericMemos == {"", "january rent", "interest"}

GenericAmounts == {"-12.00", "30", "oops", ""}

GenericDebits == {"", "5.00", "-5.00"}

GenericCredits == {"", "7.00"}

GenericCategories == {"Food", "Interest"}

\* One-row CSVs for the single-amount-column mode
GenericSingleOneRow ==
  { Csv(GenericHeader, <<Join(<<d, s, m, a, "", "", c>>, ",")>>) :
      d \in GenericDates, s \in GenericStores, m \in GenericMemos,
      a \in GenericAmounts, c \in GenericCategories }

\* One-row CSVs for the debit/credit mode
GenericTwoOneRow ==
  { Csv(GenericHeader, <<Join(<<d, s, m, "", db, cr, "Food">>, ",")>>) :
      d \in GenericDates, s \in GenericStores, m \in GenericMemos,
      db \in GenericDebits, cr \in GenericCredits }

GenericPool ==
  { "2024-01-02,Whole Foods Mkt,,-12.00,,,Food",
    "2024-01-03,Landlord LLC,january rent,-900.00,,,Housing",
    "2024-01-03,Landlord LLC,january rent,-900.00,,,Interest",
    "bad date,Landlord LLC,january rent,-900.00,,,Housing",
    "2024-01-04,,,30,,,Income",
    "2024-01-05,Landlord LLC" }

GenericManyRows == { Csv(GenericHeader, ls) : ls \in SeqsUpTo(GenericPool, MaxRows) }

\* A column_mapping dict (ColumnMapping of app/schemas_csv.py)
Mapping(date, amount, debit, credit, store, category, description, two) ==
  [ date_column |-> date, amount_column |-> amount, debit_column |-> debit,
    credit_column |-> credit, store_column |-> store, category_column |-> category,
    description_column |-> description, use_two_columns |-> two ]

SingleMapping ==
  Mapping(Some("When"), Some("Amt"), None, None, Some("Payee"), Some("Cat"), Some("Memo"), FALSE)

SingleMappingNoCategory ==
  Mapping(Some("When"), Some("Amt"), None, None, Some("Payee"), None, Some("Memo"), FALSE)

DescriptionOnlyMapping ==
  Mapping(Some("When"), Some("Amt"), None, None, None, None, Some("Memo"), FALSE)

TwoColumnMapping ==
  Mapping(Some("When"), None, Some("Out"), Some("In"), Some("Payee"), None, None, TRUE)

NoAmountMapping ==
  Mapping(Some("When"), None, None, None, Some("Payee"), None, Some("Memo"), FALSE)

NoDateMapping ==
  Mapping(None, Some("Amt"), None, None, Some("Payee"), None, Some("Memo"), FALSE)

\* Exports by whose header line the bank is detected: markers of both banks,
\* markers in capitals, one marker of two, markers below the header line only
DetectionCsvs ==
  { Csv("Date,Description,Debit,Credit,Current balance,Status",
        <<"01/02/2024,ACME LLC,12.34,,100.00,Posted">>),
    Csv("TRANSACTION DATE,DESCRIPTION,CARD NO.,AMOUNT", <<"2024-01-02,ACME LLC,1234,12.34">>),
    Csv("Date,Description,Amount,CURRENT BALANCE,STATUS",
        <<"01/02/2024,ACME LLC,-4.50,100.00,Posted">>),
    Csv("Date,Description,Amount,Status", <<"01/02/2024,ACME LLC,-4.50,Posted">>),
    Csv("Date,Description,Amount,Current balance", <<"01/02/2024,ACME LLC,-4.50,100.00">>),
    Csv("Date,Description,Debit", <<"01/02/2024,ACME LLC,12.34">>),
    Csv("Date,Payee", <<"Card No.,Debit", "Credit,Current balance", "Status,x">>),
    Csv(SofiHeader, <<"01/02/2024,Card No.,Debit Credit,-4.50,100.00,Posted">>),
    "" }

\* Date texts: ISO, slash dates readable one way or both ways, two-digit
\* years, month ends, and texts no format accepts
DateTexts ==
  { "2024-01-02", "2024-1-2", "2024-13-01", "2024/01/02", "01-02-2024",
    "01/02/2024", "01/13/2024", "13/01/2024", "13/13/2024", "01/ 2/2024",
    "1/2/24", "01/02/24", "13/1/24", "12/31/99", "31/12/68", "12/31/69",
    "02/29/2024", "02/29/2023", "29/02/2024", "30/02/2024", "04/31/2024", "31/04/2024",
    "00/01/2024", "01/02/202", "01/02/20245", "Jan 2 2024" }

\* SoFi exports of two rows: a first row with the date text, and a good row
DateCsvs ==
  { Csv(SofiHeader, << d \o ",ACME LLC,Debit Card,-4.50,100.00,Posted",
                       "01/03/2024,Payroll Co,Direct Deposit,1500.00,1600.00,Posted" >>) :
      d \in DateTexts }

\* The calls explored: <<content, bank_type, column_mapping>>
Calls ==
  ((SofiOneRow \cup SofiManyRows \cup CapitalOneOneRow \cup CapitalOneManyRows
      \cup {ScenarioCsv}) \X {None} \X {None})
  \cup (SofiShortHeader \X {None, Some("sofi")} \X {None})
  \cup (SofiManyRows
          \X {Some("auto"), Some("sofi_savings"), Some("sofi_checking"), Some("chase")}
          \X {None})
  \cup (CapitalOneManyRows \X {Some("capital_one"), Some("sofi")} \X {None})
  \cup (GenericManyRows
          \X {None, Some("auto")}
          \X {None, Some(SingleMapping), Some(NoAmountMapping), Some(NoDateMapping)})
  \cup (GenericSingleOneRow
          \X {None}
          \X {Some(SingleMapping), Some(SingleMappingNoCategory), Some(DescriptionOnlyMapping)})
  \cup (GenericTwoOneRow \X {None} \X {Some(TwoColumnMapping)})
  \cup (DetectionCsvs \X {None, Some("auto")} \X {None})
  \cup (DateCsvs \X {None} \X {None})

\* ------------------------------------------------------------------------
\* The state machine: one parse_csv call, row by row
\* ------------------------------------------------------------------------

VARIABLES
  content,        \* argument: the CSV text
  bank_type,      \* argument: None, "auto" or a bank name
  column_mapping, \* argument: None or a column mapping
  pc,             \* "call", the parser running, "returned" or "raised"
  detected,       \* the bank type parse_csv returns
  rows,           \* the rows the DictReader yields
  idx,            \* the number of rows the loop has taken
  transactions,   \* the parser's list of transactions
  outcomes,       \* how each iteration so far ended (see the row handlers)
  input,          \* the arguments of a direct call of a function or endpoint
  output,         \* what that call returned
  db              \* the database: the tables transactions and upload_sessions

vars ==
  <<content, bank_type, column_mapping, pc, detected, rows, idx, transactions, outcomes,
    input, output, db>>

\* The database while no endpoint is modelled: both tables empty
NoDatabase == [transactions |-> <<>>, upload_sessions |-> <<>>]

\* The state of a direct function call, untouched by parse_csv
call == <<input, output>>

args == <<content, bank_type, column_mapping>>

Init ==
  /\ \E c \in Calls :
       /\ content = c[1]
       /\ bank_type = c[2]
       /\ column_mapping = c[3]
  /\ pc = "call"
  /\ detected = ""
  /\ rows = <<>>
  /\ idx = 0
  /\ transactions = <<>>
  /\ outcomes = <<>>
  /\ db = NoDatabase
  /\ input = <<>>
  /\ output = ""

\* The parser parse_csv selects, or the error it raises before any row is
\* read: [pc, detected].
Dispatch(c, b, m) ==
  LET bt == IF ~b.some \/ b.val = "auto" THEN detect_bank_type(c) ELSE b.val
  IN  IF m.some
        THEN IF Mapped(m.val.date_column) THEN [pc |-> "generic", detected |-> "generic"]
             ELSE [pc |-> "raised", detected |-> ""]
      ELSE IF bt = "capital_one" THEN [pc |-> "capital_one", detected |-> bt]
      ELSE IF bt \in {"sofi", "sofi_savings", "sofi_checking"} THEN [pc |-> "sofi", detected |-> bt]
      ELSE [pc |-> "raised", detected |-> ""]

\* parse_csv up to the selected parser's loop
ParseCsv ==
  /\ pc = "call"
  /\ pc' = Dispatch(content, bank_type, column_mapping).pc
  /\ detected' = Dispatch(content, bank_type, column_mapping).detected
  /\ rows' = IF pc' = "raised" THEN <<>> ELSE DictReader(content)
  /\ UNCHANGED <<db, args, idx, transactions, outcomes, call>>

\* One iteration of a parser's loop, ending as the row handler says
Iterate(outcome) ==
  /\ idx' = idx + 1
  /\ transactions' = transactions \o outcome.txn
  /\ outcomes' = Append(outcomes, [kind |-> outcome.kind, at |-> outcome.at])
  /\ UNCHANGED <<db, args, pc, detected, rows, call>>

SofiRow ==
  /\ pc = "sofi"
  /\ idx < Len(rows)
  /\ Iterate(sofi_row(rows[idx + 1]))

CapitalOneRow ==
  /\ pc = "capital_one"
  /\ idx < Len(rows)
  /\ Iterate(capital_one_row(rows[idx + 1]))

GenericRow ==
  /\ pc = "generic"
  /\ idx < Len(rows)
  /\ Iterate(generic_row(rows[idx + 1], column_mapping.val))

\* The loop is over: the parser returns its list, parse_csv the pair
Return ==
  /\ pc \in {"sofi", "capital_one", "generic"}
  /\ idx = Len(rows)
  /\ pc' = "returned"
  /\ UNCHANGED <<db, args, detected, rows, idx, transactions, outcomes, call>>

Next == ParseCsv \/ SofiRow \/ CapitalOneRow \/ GenericRow \/ Return

Spec == Init /\ [][Next]_vars


\* ------------------------------------------------------------------------
\* suggest_category called directly, on stores, descriptions and type hints
\* that reach every rule of the two classifiers
\* ------------------------------------------------------------------------

\* Every keyword of an ordered rule list
RuleKeywords(rules) == UNION { Range(rules[r][1]) : r \in 1..Len(rules) }

ClassifyStores == { Title(k) : k \in RuleKeywords(STORE_CATEGORY_RULES) } \cup {"", "Acme"}

ClassifyDescriptions ==
  RuleKeywords(KEYWORD_CATEGORY_RULES) \cup {"", "INTEREST PAYMENT", "ACME LLC"}

ClassifyTypes == {"", "Interest Earned", "Debit Card"}

InitClassify ==
  /\ content = ""
  /\ bank_type = None
  /\ column_mapping = None
  /\ pc = "classify"
  /\ detected = ""
  /\ rows = <<>>
  /\ idx = 0
  /\ transactions = <<>>
  /\ outcomes = <<>>
  /\ db = NoDatabase
  /\ input \in ClassifyStores \X ClassifyDescriptions \X ClassifyTypes
  /\ output = ""

SuggestCategory ==
  /\ pc = "classify"
  /\ output' = suggest_category(input[1], input[2], input[3])
  /\ pc' = "classified"
  /\ UNCHANGED <<db, args, detected, rows, idx, transactions, outcomes, input>>

NextClassify == SuggestCategory

SpecClassify == InitClassify /\ [][NextClassify]_vars

\* ------------------------------------------------------------------------
\* normalize_category, is_valid_category and get_transaction_type called
\* directly, on the canonical names, the mapping's keys and values, case and
\* spacing variants of them, and names the tables do not know
\* ------------------------------------------------------------------------

RECURSIVE Upper(_)
\* The upper-case variant of an ASCII text
Upper(s) == IF s = "" THEN "" ELSE UpperChar(Head(s)) \o Upper(Tail(s))

\* The keys of the mapping
MappingKeys == { CATEGORY_MAPPING[i][1] : i \in 1..Len(CATEGORY_MAPPING) }

\* Every value the mapping's literal writes
MappingValues == { CATEGORY_MAPPING[i][2] : i \in 1..Len(CATEGORY_MAPPING) }

\* Names no table knows, blank ones, and one that starts with the ligature
UnknownCategories ==
  {" ", "  ", "Crypto", "pet care", "PET CARE", "gifts ", "dining-out", "~tness", "pro~t"}

CategoryInputs ==
  {""}
  \cup Range(ALL_CATEGORIES)
  \cup { Lower(c) : c \in Range(ALL_CATEGORIES) }
  \cup { Upper(c) : c \in Range(ALL_CATEGORIES) }
  \cup { " " \o c \o " " : c \in Range(ALL_CATEGORIES) }
  \cup MappingKeys
  \cup { Title(k) : k \in MappingKeys }
  \cup { " " \o Upper(k) \o " " : k \in MappingKeys }
  \cup MappingValues
  \cup UnknownCategories

InitCategory ==
  /\ content = ""
  /\ bank_type = None
  /\ column_mapping = None
  /\ pc = "category"
  /\ detected = ""
  /\ rows = <<>>
  /\ idx = 0
  /\ transactions = <<>>
  /\ outcomes = <<>>
  /\ db = NoDatabase
  /\ input \in { <<c>> : c \in CategoryInputs }
  /\ output = ""

NormalizeCategory ==
  /\ pc = "category"
  /\ output' = normalize_category(input[1])
  /\ pc' = "normalized"
  /\ UNCHANGED <<db, args, detected, rows, idx, transactions, outcomes, input>>

IsValidCategory ==
  /\ pc = "category"
  /\ output' = is_valid_category(input[1])
  /\ pc' = "validated"
  /\ UNCHANGED <<db, args, detected, rows, idx, transactions, outcomes, input>>

GetTransactionType ==
  /\ pc = "category"
  /\ output' = get_transaction_type(input[1])
  /\ pc' = "typed"
  /\ UNCHANGED <<db, args, detected, rows, idx, transactions, outcomes, input>>

NextCategory == NormalizeCategory \/ IsValidCategory \/ GetTransactionType

SpecCategory == InitCategory /\ [][NextCategory]_vars

\* ------------------------------------------------------------------------
\* normalize_store called directly, on every pattern and exact-match key,
\* on texts that hold them, and on texts that only the cleanup changes
\* ------------------------------------------------------------------------

PatternKeys == { STORE_PATTERNS[i][1] : i \in 1..Len(STORE_PATTERNS) }

ExactKeys == { STORE_EXACT_MATCH[i][1] : i \in 1..Len(STORE_EXACT_MATCH) }

\* Blank texts, texts the cleanup empties, and texts it shortens
CleanupStores ==
  { "", " ", "  \t ", "#123", " #123 ", "*AB12", "*AB12 #7", "Mktpl", "Pmts ", "x.com",
    "SOME RANDOM STORE LLC", "Joes Diner Inc.", "ACME CORP", "Acme  Supply   Co",
    "Corner Bakery 00417", "Zed Books #12", "LLC", " Inc.", "~sh house" }

\* Texts of alphabetic words only, which no table knows
WordStores ==
  { "Some Random Store", "some  random store  ", "Acme Inc", "Acme Ltd", "ACME US",
    "Acme Co Inc", "Acme Inc Co", "Joes Diner Company", "JOES DINER COMPANY",
    "Welcome Inn", "First Community Bank", "Holcomb Farm", "HOLCOMB FARM",
    "Compton Diner", "Zed Books" }

StoreInputs ==
  PatternKeys
  \cup ExactKeys
  \cup { " " \o Upper(k) \o " " : k \in ExactKeys }
  \cup { "the " \o k \o " shop" : k \in ExactKeys }
  \cup { Upper(k) \o " 00002204" : k \in PatternKeys }
  \cup { "Target 00002204", "Amazon Mktpl*6Z7Xf0Y53", "COSTCO GAS #0412", "Uber Eats Pmt" }
  \cup CleanupStores
  \cup WordStores

InitStore ==
  /\ content = ""
  /\ bank_type = None
  /\ column_mapping = None
  /\ pc = "store"
  /\ detected = ""
  /\ rows = <<>>
  /\ idx = 0
  /\ transactions = <<>>
  /\ outcomes = <<>>
  /\ db = NoDatabase
  /\ input \in { <<s>> : s \in StoreInputs }
  /\ output = ""

NormalizeStore ==
  /\ pc = "store"
  /\ output' = normalize_store(input[1])
  /\ pc' = "store_normalized"
  /\ UNCHANGED <<db, args, detected, rows, idx, transactions, outcomes, input>>

NextStore == NormalizeStore

SpecStore == InitStore /\ [][NextStore]_vars

\* ------------------------------------------------------------------------
\* get_automatic_tags called directly
\* ------------------------------------------------------------------------

\* a | b for two str operands: str has no __or__, so the evaluation raises
StrOr(a, b) == Raised("TypeError")

\* if cond: tags.append(tag)
TagIf(cond, tag) == IF cond THEN <<tag>> ELSE <<>>

GolfStoreWords == <<"golf", "pga", "course", "club">>

GolfDescriptionWords == <<"golf", "tee time", "club", "course">>

VacationStoreWords == <<"airline", "hotel", "airbnb", "booking.com", "expedia">>

\* The tags appended once the operand of the last test has the value v:
\* category == ("Groceries" | category) == "Dining" is a chained comparison
TagsGiven(store_lower, category, desc_lower, v) ==
  TagIf(category = "Subscriptions", "recurring")
  \o TagIf(AnyIn(GolfStoreWords, store_lower) \/ AnyIn(GolfDescriptionWords, desc_lower), "golf")
  \o TagIf(AnyIn(VacationStoreWords, store_lower), "vacation")
  \o TagIf(category = v /\ v = "Dining", "food")

\* The result once "Groceries" | category has been evaluated to operand
TagsAfter(store_lower, category, desc_lower, operand) ==
  IF operand.ok THEN Ok(TagsGiven(store_lower, category, desc_lower, operand.val))
  ELSE operand

get_automatic_tags(store, category, amount, description) ==
  TagsAfter(Lower(store), category, Lower(description), StrOr("Groceries", category))

TagStores == {"", "Kroger", "Pebble Beach GOLF Club", "Hilton Hotel", "Golf Hotel", "Netflix"}

TagCategories == {"Subscriptions", "Groceries", "Dining", "Travel", ""}

TagAmounts == {Float(FALSE, 0, 0), Float(FALSE, 1250, 2)}

TagDescriptions == {"", "Tee Time 9am", "weekly shop"}

InitTags ==
  /\ content = ""
  /\ bank_type = None
  /\ column_mapping = None
  /\ pc = "tags"
  /\ detected = ""
  /\ rows = <<>>
  /\ idx = 0
  /\ transactions = <<>>
  /\ outcomes = <<>>
  /\ db = NoDatabase
  /\ input \in TagStores \X TagCategories \X TagAmounts \X TagDescriptions
  /\ output = ""

GetAutomaticTags ==
  /\ pc = "tags"
  /\ output' = get_automatic_tags(input[1], input[2], input[3], input[4])
  /\ pc' = "tagged"
  /\ UNCHANGED <<db, args, detected, rows, idx, transactions, outcomes, input>>

NextTags == GetAutomaticTags

SpecTags == InitTags /\ [][NextTags]_vars

\* ------------------------------------------------------------------------
\* The endpoint DELETE /transactions/{transaction_id} (app/main.py) on the
\* tables transactions and upload_sessions (app/models.py). A table is a
\* function from the primary keys of its rows to the rows; a Date column
\* holds a day number.
\* ------------------------------------------------------------------------

\* A row of upload_sessions, without its key
UploadSession(upload_type, transaction_count, min_transaction_date, max_transaction_date) ==
  [upload_type |-> upload_type, transaction_count |-> transaction_count,
   min_transaction_date |-> min_transaction_date, max_transaction_date |-> max_transaction_date]

\* A row of transactions, without its key: the columns the endpoint reads
TransactionRow(transaction_date, upload_session_id) ==
  [transaction_date |-> transaction_date, upload_session_id |-> upload_session_id]

\* db.delete(row); db.commit()
DeleteRow(table, id) == [k \in DOMAIN table \ {id} |-> table[k]]

\* query(Transaction).filter(Transaction.upload_session_id == upload_session_id).all()
RemainingTransactions(d, upload_session_id) ==
  { t \in DOMAIN d.transactions :
      d.transactions[t].upload_session_id = Some(upload_session_id) }

\* dates = [t.transaction_date for t in remaining_transactions]
Dates(d, remaining) == { d.transactions[t].transaction_date : t \in remaining }

\* min(dates)
MinDate(dates) == CHOOSE x \in dates : \A y \in dates : x <= y

\* max(dates)
MaxDate(dates) == CHOOSE x \in dates : \A y \in dates : x >= y

\* The session row with its count and date range set from the remaining rows
Recounted(session, d, remaining) ==
  [session EXCEPT !.transaction_count = Cardinality(remaining),
                  !.min_transaction_date = Some(MinDate(Dates(d, remaining))),
                  !.max_transaction_date = Some(MaxDate(Dates(d, remaining)))]

\* "Update the upload session if it exists", on the database d in which the
\* transaction is already deleted
UpdateSession(d, upload_session_id) ==
  IF upload_session_id \notin DOMAIN d.upload_sessions THEN d
  ELSE IF RemainingTransactions(d, upload_session_id) = {}
    THEN [d EXCEPT !.upload_sessions = DeleteRow(@, upload_session_id)]
  ELSE [d EXCEPT !.upload_sessions[upload_session_id] =
          Recounted(@, d, RemainingTransactions(d, upload_session_id))]

\* if upload_session_id: neither None nor 0
HasSession(upload_session_id) == upload_session_id.some /\ upload_session_id.val # 0

\* The endpoint once the transaction is found
DeleteFound(d, transaction_id, upload_session_id) ==
  IF HasSession(upload_session_id)
    THEN UpdateSession([d EXCEPT !.transactions = DeleteRow(@, transaction_id)],
                       upload_session_id.val)
  ELSE [d EXCEPT !.transactions = DeleteRow(@, transaction_id)]

\* A variant of delete_transaction that leaves the upload session as it is.
delete_transaction_only(d, transaction_id) ==
  IF transaction_id \notin DOMAIN d.transactions THEN [db |-> d, status |-> 404]
  ELSE [db |-> [d EXCEPT !.transactions = DeleteRow(@, transaction_id)], status |-> 200]

\* delete_transaction on the database d: the database it leaves and the
\* status of its response
delete_transaction(d, transaction_id) ==
  IF transaction_id \notin DOMAIN d.transactions THEN [db |-> d, status |-> 404]
  ELSE [db |-> DeleteFound(d, transaction_id, d.transactions[transaction_id].upload_session_id),
        status |-> 200]

\* The largest number of requests served
MaxCalls == 3

\* The keys of the transactions in the database at the start
TransactionIds == {1, 2, 3}

\* The dates the transaction of each key may have
DatesOf == [t \in TransactionIds |-> IF t = 1 THEN {10, 20} ELSE IF t = 2 THEN {20, 30} ELSE {10, 30}]

\* Upload sessions as a client may have left them: created with the defaults
\* and never updated, updated with a count and a date range, or deleted
\* while a transaction still names them
SessionTables ==
  { [s \in {1, 2} |-> UploadSession("bulk", 0, None, None)],
    [s \in {1, 2} |-> UploadSession("bulk", 3, Some(10), Some(30))],
    [s \in {1, 2} |-> UploadSession(IF s = 1 THEN "bulk" ELSE "manual", s, Some(20), Some(20))],
    [s \in {1} |-> UploadSession("bulk", 3, Some(10), Some(30))] }

TransactionTables ==
  { tt \in [TransactionIds -> [transaction_date : {10, 20, 30},
                               upload_session_id : {None, Some(1), Some(2)}]] :
      \A t \in TransactionIds : tt[t].transaction_date \in DatesOf[t] }

InitDelete ==
  /\ content = ""
  /\ bank_type = None
  /\ column_mapping = None
  /\ pc = "serving"
  /\ detected = ""
  /\ rows = <<>>
  /\ idx = 0
  /\ transactions = <<>>
  /\ outcomes = <<>>
  /\ input = <<>>
  /\ output = ""
  /\ \E tt \in TransactionTables, st \in SessionTables :
       db = [transactions |-> tt, upload_sessions |-> st]

\* One request DELETE /transactions/{transaction_id}, served to its end;
\* outcomes keeps the requests served: the id, the status, the database before
DeleteTransaction ==
  /\ pc = "serving"
  /\ Len(outcomes) < MaxCalls
  /\ \E transaction_id \in TransactionIds :
       /\ input' = <<transaction_id>>
       /\ db' = delete_transaction(db, transaction_id).db
       /\ output' = delete_transaction(db, transaction_id).status
       /\ outcomes' = Append(outcomes, [transaction_id |-> transaction_id,
                                        status |-> delete_transaction(db, transaction_id).status,
                                        before |-> db])
  /\ UNCHANGED <<args, pc, detected, rows, idx, transactions>>

NextDelete == DeleteTransaction

SpecDelete == InitDelete /\ [][NextDelete]_vars

\* ------------------------------------------------------------------------
\* Properties of the parsers and of the classifier
\* ------------------------------------------------------------------------

\* Which parser parse_csv ran
SofiRan == detected \in {"sofi", "sofi_savings", "sofi_checking"}

CapitalOneRan == detected = "capital_one"

GenericRan == detected = "generic"

\* The handler of the parser that ran
RowHandler(row) ==
  IF SofiRan THEN sofi_row(row)
  ELSE IF CapitalOneRan THEN capital_one_row(row)
  ELSE generic_row(row, column_mapping.val)

\* Row i was taken and a transaction was appended for it
Emits(i) == outcomes[i].kind = "append"

\* The transaction appended for row i (for a row that Emits)
TxnOf(i) == transactions[Cardinality({ k \in 1..i : outcomes[k].kind = "append" })]

\* The row has no cell under the key: the header lacks the column, or the
\* line is too short to reach it
Missing(row, key) == key \notin DOMAIN row \/ ~row[key].some

\* The trimmed text of the cell, empty when it is missing
CellText(row, key) == IF Missing(row, key) THEN "" ELSE Strip(row[key].val)

\* ---- C1 ----------------------------------------------------------------

\* C1: for every CSV input and every parser, the suggested_category of every
\* emitted transaction is non-empty and is a member of ALL_CATEGORIES.
C1_CategoryIsCanonical ==
  \A i \in 1..Len(transactions) :
    /\ transactions[i].suggested_category # ""
    /\ transactions[i].suggested_category \in Range(ALL_CATEGORIES)

\* A returned list that holds a category a rule gave and the default one
C1_Witness ==
  /\ pc = "returned"
  /\ \E i \in 1..Len(transactions) : transactions[i].suggested_category = "Dining"
  /\ \E i \in 1..Len(transactions) : transactions[i].suggested_category = "Other Expense"

\* ---- C2 ----------------------------------------------------------------

\* C2: for every (store, description, transaction_type), suggest_category
\* returns a non-empty category c with normalize_category(c) = c.
C2_SuggestionIsNormalized ==
  pc = "classified" => (output # "" /\ normalize_category(output) = output)

\* A suggestion taken from the keyword rules, for a store no rule knows
C2_Witness ==
  /\ pc = "classified"
  /\ input[1] = "Acme"
  /\ output = "Student Loan"

\* ---- C3 ----------------------------------------------------------------

\* The raw amount of an emitted SoFi row: float of the Amount cell, of "0"
\* when the export has no Amount column
RawAmount(row) == ParseAmount(Strip(RowGet(row, "Amount", "0").val)).val

\* The sign rule on one emitted SoFi transaction t of raw amount raw
SignDecides(raw, t) ==
  /\ FloatLt0(raw) => (t.type = "expense" /\ FloatEq(t.amount, FloatAbs(raw)))
  /\ FloatGe0(raw) => t.type = "income"

\* C3: in the SoFi parser the emitted type is decided by the sign of the raw
\* Amount alone: a negative raw amount yields type "expense" with amount
\* abs(raw), a non-negative one yields "income", whatever category the
\* classifier chose.
C3_SignDecidesType ==
  SofiRan =>
    \A i \in 1..idx :
      Emits(i) => SignDecides(RawAmount(rows[i]), TxnOf(i))

\* A negative amount on a row the classifier calls Salary, emitted as an
\* expense
C3_Witness ==
  /\ SofiRan
  /\ \E i \in 1..idx :
       /\ Emits(i)
       /\ FloatLt0(RawAmount(rows[i]))
       /\ TxnOf(i).suggested_category = "Salary"
       /\ TxnOf(i).type = "expense"

\* ---- C4 ----------------------------------------------------------------

\* What parsing the scenario CSV returns: one transaction, of the given type
ScenarioYields(type) ==
  (content = ScenarioCsv /\ pc = "returned") =>
    /\ Len(transactions) = 1
    /\ transactions[1].store = "Starbucks"
    /\ transactions[1].type = type
    /\ FloatEq(transactions[1].amount, Float(FALSE, 45, 1))
    /\ transactions[1].suggested_category = "Dining"

\* C4 as stated: parsing the scenario CSV (a posted STARBUCKS #123 row of
\* amount 4.50, a pending Payroll Co row) yields exactly one transaction, with
\* store "Starbucks", type "expense", amount 4.50 and category "Dining".
C4_ScenarioAsStated == ScenarioYields("expense")

\* C4 amended: parsing the scenario CSV yields exactly one transaction, with
\* store "Starbucks", type "income" (the amount 4.50 is not negative), amount
\* 4.50 and category "Dining".
C4_ScenarioYieldsIncome == ScenarioYields("income")

\* The scenario parsed to its end, the pending row turned away
C4_Witness ==
  /\ content = ScenarioCsv
  /\ pc = "returned"
  /\ Len(transactions) = 1
  /\ outcomes[2] = [kind |-> "continue", at |-> 156]

\* ---- C5 ----------------------------------------------------------------

\* The column that holds the bank's own type or category
BankTextColumn ==
  IF SofiRan THEN Some("Type")
  ELSE IF CapitalOneRan THEN Some("Category")
  ELSE column_mapping.val.category_column

\* Texts a bank may write there
BankTexts == {"", "Debit Card", "Deposit", "Interest Earned", "Interest Charge", "Merchandise"}

\* C5: the bank-provided type/category text of a row never influences the
\* canonical category: for every parser, two rows that differ only in the
\* bank's Type column (SoFi), Category column (Capital One) or mapped
\* category column (generic) produce the same suggested_category.
C5_BankTextNeverDecides ==
  \A i \in 1..idx :
    (Emits(i) /\ Mapped(BankTextColumn) /\ ~Missing(rows[i], BankTextColumn.val)) =>
      \A text \in BankTexts :
        /\ RowHandler([rows[i] EXCEPT ![BankTextColumn.val] = Some(text)]).kind = "append"
        /\ RowHandler([rows[i] EXCEPT ![BankTextColumn.val] = Some(text)]).txn[1].suggested_category
             = TxnOf(i).suggested_category

\* ---- C6 ----------------------------------------------------------------

RECURSIVE RowResults(_)
\* The results of the first n rows, each handled on its own, in order
RowResults(n) == IF n = 0 THEN <<>> ELSE RowResults(n - 1) \o RowHandler(rows[n]).txn

\* The SoFi row lacks a field, or its date or amount does not parse
BadSofiRow(row) ==
  \/ Missing(row, "Date") \/ Missing(row, "Amount") \/ Missing(row, "Status")
  \/ ~parse_date(CellText(row, "Date")).ok
  \/ ~ParseAmount(CellText(row, "Amount")).ok

\* The Capital One row lacks its date or both amounts, or the date or the
\* amount does not parse
BadCapitalOneRow(row) ==
  \/ Missing(row, "Transaction Date")
  \/ ~parse_date(CellText(row, "Transaction Date")).ok
  \/ ~ParseAmount(IF CellText(row, "Debit") # "" THEN CellText(row, "Debit")
                  ELSE CellText(row, "Credit")).ok

\* The text of the mapped column of the row, empty when there is none
MappedText(row, col) == IF Mapped(col) THEN CellText(row, col.val) ELSE ""

\* The mapped row lacks its date or its amount, or they do not parse
BadGenericRow(row, m) ==
  \/ Missing(row, m.date_column.val)
  \/ ~parse_date(CellText(row, m.date_column.val)).ok
  \/ /\ ~m.use_two_columns
     /\ ~ParseAmount(MappedText(row, m.amount_column)).ok
  \/ /\ m.use_two_columns
     /\ ~ParseAmount(IF MappedText(row, m.debit_column) # ""
                     THEN MappedText(row, m.debit_column)
                     ELSE MappedText(row, m.credit_column)).ok

BadRow(row) ==
  IF SofiRan THEN BadSofiRow(row)
  ELSE IF CapitalOneRan THEN BadCapitalOneRow(row)
  ELSE BadGenericRow(row, column_mapping.val)

\* The first half of C6: the output is the in-order concatenation of each
\* row's own result, so no row changes, reorders or suppresses what another
\* row produced.
RowsAreIndependent == (idx > 0) => transactions = RowResults(idx)

\* C6: a parser's output is the in-order concatenation of each row's
\* independent result (zero or one transaction), and a row with an
\* unparseable date, a non-numeric amount or a missing field contributes
\* nothing.
C6_RowFailureIsolation ==
  /\ RowsAreIndependent
  /\ \A i \in 1..idx : BadRow(rows[i]) => ~Emits(i)

\* ---- C7 ----------------------------------------------------------------

\* C7: no transaction emitted by the SoFi parser originates from a row whose
\* Status, trimmed and compared case-insensitively, is anything other than
\* "posted" (an empty or missing Status included).
C7_OnlyPostedRows ==
  SofiRan =>
    \A i \in 1..idx :
      Emits(i) =>
        (~Missing(rows[i], "Status") /\ Lower(CellText(rows[i], "Status")) = "posted")

\* A pending row turned away in an export that also emitted a posted row
C7_Witness ==
  /\ SofiRan
  /\ \E i \in 1..idx : Emits(i) /\ CellText(rows[i], "Status") = "Posted"
  /\ \E j \in 1..idx :
       /\ outcomes[j] = [kind |-> "continue", at |-> 156]
       /\ CellText(rows[j], "Status") = "Pending"

\* ---- C8 ----------------------------------------------------------------

\* C8 as stated: in the SoFi parser, every emitted transaction whose
\* suggested_category is "Interest" has its store set to the institution's own
\* name rather than to the normalized Description text: the store is not the
\* normalized Description, and it is one name for all of them.
C8_InterestStoreIsBank ==
  SofiRan =>
    \A i \in 1..idx :
      (Emits(i) /\ TxnOf(i).suggested_category = "Interest") =>
        /\ TxnOf(i).store # normalize_store(CellText(rows[i], "Description"))
        /\ \A j \in 1..idx :
             (Emits(j) /\ TxnOf(j).suggested_category = "Interest") =>
               TxnOf(j).store = TxnOf(i).store

\* C8 amended: in the SoFi parser, every emitted transaction, one whose
\* suggested_category is "Interest" included, has its store set to the
\* normalized Description text.
C8_StoreIsNormalizedDescription ==
  SofiRan =>
    \A i \in 1..idx :
      Emits(i) => TxnOf(i).store = normalize_store(CellText(rows[i], "Description"))

\* An interest payment emitted under the store its Description names
C8_Witness ==
  /\ SofiRan
  /\ \E i \in 1..idx :
       /\ Emits(i)
       /\ TxnOf(i).suggested_category = "Interest"
       /\ CellText(rows[i], "Description") = "ACME LLC"
       /\ TxnOf(i).store = "Acme"

\* ---- C9 ----------------------------------------------------------------

\* The Capital One row passes every check but the one on Debit and Credit
PassesOtherChecks(row) ==
  /\ \A key \in {"Transaction Date", "Description", "Category", "Debit", "Credit"} :
       ~Missing(row, key)
  /\ parse_date(CellText(row, "Transaction Date")).ok
  /\ ~Contains("autopay", Lower(CellText(row, "Description")))
  /\ ParseAmount(IF CellText(row, "Debit") # "" THEN CellText(row, "Debit")
                 ELSE CellText(row, "Credit")).ok

\* The typing rule on row i, of trimmed Debit and Credit texts
DebitCreditRule(i, debit, credit) ==
  /\ (debit = "" /\ credit = "") => ~Emits(i)
  /\ outcomes[i] = [kind |-> "continue", at |-> 230] => (debit = "" /\ credit = "")
  /\ (Emits(i) /\ debit # "") =>
       (TxnOf(i).type = "expense" /\ TxnOf(i).amount = ParseAmount(debit).val)
  /\ (Emits(i) /\ debit = "") =>
       (credit # "" /\ TxnOf(i).type = "income" /\ TxnOf(i).amount = ParseAmount(credit).val)
  /\ (PassesOtherChecks(rows[i]) /\ (debit # "" \/ credit # "")) => Emits(i)

C10_AmountIsNonNegative ==
  \A i \in 1..Len(transactions) : FloatGe0(transactions[i].amount)

\* ---- C11 ---------------------------------------------------------------

\* C11: every transaction emitted by any parser has a non-empty store string,
\* rows whose Description (or mapped store and description columns) is empty
\* or blank included.
C11_StoreIsNonEmpty ==
  \A i \in 1..Len(transactions) : transactions[i].store # ""

\* What holds of the generic parser alone: its store is never empty, an
\* empty store and description giving "Unknown Store"
GenericStoreIsNonEmpty ==
  GenericRan => \A i \in 1..Len(transactions) : transactions[i].store # ""

\* ---- C12 ---------------------------------------------------------------

\* C12: every member c of the canonical category set is a fixed point of
\* normalize_category, and any case variant of c normalizes to c.
C12_CanonicalIsFixedPoint ==
  pc = "normalized" =>
    \A c \in Range(ALL_CATEGORIES) : Lower(input[1]) = Lower(c) => output = c

\* ---- C13 ---------------------------------------------------------------

\* C13: normalize_category is idempotent: for every input string x,
\* normalize_category(normalize_category(x)) = normalize_category(x).
C13_NormalizeIsIdempotent ==
  pc = "normalized" => normalize_category(output) = output

\* What holds of the inputs written in ASCII alone: on them it is idempotent
IdempotentOnAscii ==
  (pc = "normalized" /\ ~Contains(LigatureFi, input[1])) =>
    normalize_category(output) = output

\* ---- C14 ---------------------------------------------------------------

\* C14: every value of CATEGORY_MAPPING is a member of the canonical category
\* set, so normalize_category returns a canonical category whenever its
\* trimmed, lower-cased input is a key of the mapping.
C14_MappingValuesAreCanonical ==
  /\ \A k \in MappingKeys : DictGet(CATEGORY_MAPPING, k) \in Range(ALL_CATEGORIES)
  /\ (pc = "normalized" /\ input[1] # "" /\ Strip(Lower(input[1])) \in MappingKeys) =>
       output \in Range(ALL_CATEGORIES)

\* ---- C15 ---------------------------------------------------------------

\* What the precedence gives for the category x of trimmed lower-cased text t
PrecedenceResult(x, t) ==
  IF x = "" THEN "Other Expense"
  ELSE IF t \in MappingKeys THEN DictGet(CATEGORY_MAPPING, t)
  ELSE IF \E c \in Range(ALL_CATEGORIES) : Lower(c) = t
    THEN CHOOSE c \in Range(ALL_CATEGORIES) : Lower(c) = t
  ELSE Title(x)

C16_ValidIffNormalizedCanonical ==
  pc = "validated" =>
    (output <=> normalize_category(input[1]) \in Range(ALL_CATEGORIES))

\* C16 amended: is_valid_category(c) is false for the empty string, and for
\* every other c it is true if and only if normalize_category(c) is a member
\* of the canonical category set.
C16_ValidIffNonEmptyAndCanonical ==
  pc = "validated" =>
    (output <=> (input[1] # "" /\ normalize_category(input[1]) \in Range(ALL_CATEGORIES)))

\* The empty string, which normalizes to a canonical category, is not valid
C16_Witness ==
  /\ pc = "validated"
  /\ input[1] = ""
  /\ normalize_category(input[1]) \in Range(ALL_CATEGORIES)
  /\ output = FALSE

\* ---- C17 ---------------------------------------------------------------

\* C17: get_transaction_type returns "income" for every member of the Income
\* enumeration and "expense" for every member of the Expense enumeration and
\* for every unknown category.
C17_TypeOfCategory ==
  pc = "typed" =>
    /\ input[1] \in Range(INCOME_CATEGORIES) => output = "income"
    /\ input[1] \in Range(EXPENSE_CATEGORIES) => output = "expense"
    /\ normalize_category(input[1]) \notin Range(ALL_CATEGORIES) => output = "expense"

\* What holds with "Gift" set aside
TypeOfCategoryButGift ==
  (pc = "typed" /\ input[1] # "Gift") =>
    /\ input[1] \in Range(INCOME_CATEGORIES) => output = "income"
    /\ input[1] \in Range(EXPENSE_CATEGORIES) => output = "expense"
    /\ normalize_category(input[1]) \notin Range(ALL_CATEGORIES) => output = "expense"

\* ---- C18 ---------------------------------------------------------------

\* The pattern of index j occurs in the text s, and no pattern declared
\* before it does
IsFirstPatternIn(j, s) ==
  /\ Contains(STORE_PATTERNS[j][1], s)
  /\ \A k \in 1..Len(STORE_PATTERNS) : Contains(STORE_PATTERNS[k][1], s) => j <= k

\* The precedence on the store x of trimmed lower-cased text s and result out
StorePrecedence(x, s, out) ==
  /\ (x # "" /\ s \in ExactKeys) => out = DictGet(STORE_EXACT_MATCH, s)
  /\ (x # "" /\ s \notin ExactKeys) =>
       \A j \in 1..Len(STORE_PATTERNS) : IsFirstPatternIn(j, s) => out = STORE_PATTERNS[j][2]

\* C18: normalize_store rule precedence: if the trimmed lower-cased input is a
\* STORE_EXACT_MATCH key, the exact rule's canonical name is returned whatever
\* the pattern table holds; otherwise, if any STORE_PATTERNS key is a substring
\* of the lower-cased input, the canonical name of the first such key in
\* declaration order is returned and no cleanup is applied.
C18_StorePrecedence ==
  pc = "store_normalized" => StorePrecedence(input[1], Lower(Strip(input[1])), output)

\* "Target 00002204": the pattern gives "Target", the digits are not cleaned
C18_Witness ==
  /\ pc = "store_normalized"
  /\ input[1] = "Target 00002204"
  /\ output = "Target"

\* An exact key met inside a longer text is not an exact match
ExactKeyAsWordIsCleaned ==
  (pc = "store_normalized" /\ input[1] = "the tsq shop") => output = "The Tsq Shop"

\* ---- C19 ---------------------------------------------------------------

\* C19: the store pattern table is ordered most-specific-first: whenever one
\* STORE_PATTERNS key is a substring of another key with a different canonical
\* name, the longer key is declared earlier, so for every pattern p
\* normalize_store(p) returns p's own canonical name.
C19_PatternsMostSpecificFirst ==
  /\ \A i, j \in 1..Len(STORE_PATTERNS) :
       ( /\ i # j
         /\ Contains(STORE_PATTERNS[i][1], STORE_PATTERNS[j][1])
         /\ STORE_PATTERNS[i][2] # STORE_PATTERNS[j][2] ) => j < i
  /\ (pc = "store_normalized" /\ input[1] \in PatternKeys) =>
       output = DictGet(STORE_PATTERNS, input[1])

\* The three patterns that an earlier, shorter pattern shadows
ShadowedPatterns == {"costco gas", "uber eats", "t-mobile"}

\* What holds of every other pattern: it gives its own canonical name
UnshadowedPatternGivesOwnName ==
  (pc = "store_normalized" /\ input[1] \in PatternKeys \ ShadowedPatterns) =>
    output = DictGet(STORE_PATTERNS, input[1])

\* ---- C20 ---------------------------------------------------------------

\* C20: normalize_store returns the empty string for empty or whitespace-only
\* input, and a non-empty string for every input that holds a character
\* other than whitespace (when the cleanup strips everything, the title-cased
\* trimmed original is returned).
C20_StoreEmptyIffBlank ==
  pc = "store_normalized" => (output = "" <=> Strip(input[1]) = "")

\* A store the cleanup empties comes back as its trimmed original
C20_Witness ==
  /\ pc = "store_normalized"
  /\ input[1] = " #123 "
  /\ CleanStore(Strip(input[1])) = ""
  /\ output = "#123"

\* ---- C21 ---------------------------------------------------------------

\* The words of s: its maximal runs of characters other than the space
Words(s) == SelectSeq(Split(s, " "), LAMBDA w : w # "")

\* s is made of letters and spaces only, and has a word
IsAlphaWords(s) ==
  /\ \A i \in 1..Len(s) : CharAt(s, i) \in UpperSet \cup LowerSet \cup {" "}
  /\ Len(Words(s)) > 0

\* Neither the exact-match table nor the pattern table knows s
NoRuleMatches(s) ==
  /\ ~DictHas(STORE_EXACT_MATCH, Lower(Strip(s)))
  /\ \A j \in 1..Len(STORE_PATTERNS) : ~Contains(STORE_PATTERNS[j][1], Lower(Strip(s)))

\* s holds none of the tokens the cleanup is meant to remove
NoNoiseToken(s) ==
  /\ ~Contains("Mktpl", s)
  /\ ~Contains("Pmt", s)
  /\ ~Contains(".com", s)
  /\ ~Contains(".Com", s)

\* out is the first k words of s, joined by one space and title-cased, and
\* every word left out is a legal-entity suffix
KeepsWords(s, k, out) ==
  /\ \A j \in (k + 1)..Len(Words(s)) : Lower(Words(s)[j]) \in Range(SUFFIXES)
  /\ out = Title(Join(SubSeq(Words(s), 1, k), " "))

\* out is s with nothing but trailing suffix words removed
OnlySuffixRemoved(s, out) == \E k \in 1..Len(Words(s)) : KeepsWords(s, k, out)

\* The inputs C21 is about
PlainWords(s) == IsAlphaWords(s) /\ NoRuleMatches(s) /\ NoNoiseToken(s)

\* C21: on the no-rule-match path, for an input made only of space-separated
\* alphabetic words that holds none of the noise tokens, normalize_store
\* removes nothing except a trailing legal-entity suffix word and returns the
\* remaining words whitespace-collapsed and title-cased, every letter kept.
C21_OnlySuffixRemoved ==
  (pc = "store_normalized" /\ PlainWords(input[1])) =>
    OnlySuffixRemoved(input[1], output)

\* The pattern .com (or .Com), whose dot matches any character, matches in s
ComMatches(s) ==
  \E i \in 1..Len(s) : MatchAnyThen(s, i, "com") > 0 \/ MatchAnyThen(s, i, "Com") > 0

\* C21 holds for the inputs in which no letter run "com" or "Com" follows
\* another character
OnlySuffixRemovedWithoutCom ==
  (pc = "store_normalized" /\ PlainWords(input[1]) /\ ~ComMatches(input[1])) =>
    OnlySuffixRemoved(input[1], output)

\* ---- C22 ---------------------------------------------------------------

\* C22: no transaction emitted by the Capital One parser originates from a
\* row whose Description contains "autopay" in any letter case, whether the
\* row is a debit or a credit.
C22_NoAutopayEmitted ==
  CapitalOneRan =>
    \A i \in 1..idx :
      Emits(i) => ~Contains("autopay", Lower(CellText(rows[i], "Description")))

\* A debit row that would otherwise be emitted, skipped for its mixed-case
\* autopay text
C22_Witness ==
  /\ CapitalOneRan
  /\ idx = 1
  /\ CellText(rows[1], "Description") = "Autopay thank you"
  /\ CellText(rows[1], "Debit") = "12.34"
  /\ parse_date(CellText(rows[1], "Transaction Date")).ok
  /\ outcomes[1] = [kind |-> "continue", at |-> 237]

\* ---- C23 ---------------------------------------------------------------

\* The text of s before its first line feed, in lower case
HeaderLine(s) == Lower(Slice(s, 1, RunLen(s, 1, CharSet(s) \ {"\n"})))

\* parse_csv was called without a column mapping, the bank left to detect
AutoDetected == ~column_mapping.some /\ (~bank_type.some \/ bank_type.val = "auto")

CapitalOneMarkers(h) == Contains("card no.", h) \/ (Contains("debit", h) /\ Contains("credit", h))

SofiMarkers(h) == Contains("current balance", h) /\ Contains("status", h)

\* What the header line h decides, once parse_csv is past its dispatch
HeaderDecides(h) ==
  IF CapitalOneMarkers(h) THEN pc \in {"capital_one", "returned"} /\ detected = "capital_one"
  ELSE IF SofiMarkers(h) THEN pc \in {"sofi", "returned"} /\ detected = "sofi"
  ELSE pc = "raised" /\ transactions = <<>>

\* C23: parse_csv with no column mapping and bank_type None or "auto" selects
\* the parser from the first header line only: capital_one when it contains
\* "card no." or both "debit" and "credit" (tested first), else sofi when it
\* contains both "current balance" and "status"; for any other header the
\* call fails with an error and returns no transactions.
C23_HeaderSelectsParser == (AutoDetected /\ pc # "call") => HeaderDecides(HeaderLine(content))

\* A header with the markers of both banks, read by the Capital One parser
C23_Witness ==
  /\ AutoDetected
  /\ CapitalOneMarkers(HeaderLine(content))
  /\ SofiMarkers(HeaderLine(content))
  /\ pc = "returned"
  /\ detected = "capital_one"
  /\ idx = 1

\* A header without markers, whose data lines hold them: the call fails
C23_RaisedForUnknownHeader ==
  (AutoDetected /\ HeaderLine(content) = "date,payee") => pc \in {"call", "raised"}

\* ---- C24 ---------------------------------------------------------------

\* The tags the four independent rules give
RuleTags(store, category, description) ==
  { t \in {"recurring", "golf", "vacation", "food"} :
      \/ t = "recurring" /\ category = "Subscriptions"
      \/ t = "golf" /\ (AnyIn(GolfStoreWords, Lower(store))
                          \/ AnyIn(GolfDescriptionWords, Lower(description)))
      \/ t = "vacation" /\ AnyIn(VacationStoreWords, Lower(store))
      \/ t = "food" /\ category \in {"Groceries", "Dining"} }

\* The sequence holds no element twice
DuplicateFree(seq) == Cardinality(Range(seq)) = Len(seq)

\* C24: get_automatic_tags returns, for every (store, category, amount,
\* description), a duplicate-free collection that holds exactly the tags of
\* the matching rules: "recurring" iff category is Subscriptions, "golf" iff
\* store or description holds a golf keyword, "vacation" iff store holds a
\* travel-booking keyword, "food" iff category is Groceries or Dining.
C24_TagsOfMatchingRules ==
  pc = "tagged" =>
    /\ output.ok
    /\ DuplicateFree(output.val)
    /\ Range(output.val) = RuleTags(input[1], input[2], input[4])

\* What get_automatic_tags does for every input of text arguments
TagsAlwaysRaise == pc = "tagged" => output = Raised("TypeError")

\* ---- C25 ---------------------------------------------------------------

\* The categories of the store rules, in declaration order
FamilyOrder ==
  << "Groceries", "Dining", "Gas & Auto", "Subscriptions", "Shopping", "Health & Fitness",
     "Utilities", "Travel", "Entertainment" >>

\* The store keywords that lead to the category
FamilyKeywords(category) ==
  UNION { Range(STORE_CATEGORY_RULES[r][1]) :
            r \in { j \in 1..Len(STORE_CATEGORY_RULES) : STORE_CATEGORY_RULES[j][2] = category } }

\* A keyword of the f-th family occurs in the lower-cased store
FamilyMatches(f, store) == \E k \in FamilyKeywords(FamilyOrder[f]) : Contains(k, Lower(store))

\* The description or the type hint matches a keyword rule
KeywordMatches(description, transaction_type) ==
  \/ Contains("interest", Lower(description))
  \/ Contains("interest", Lower(transaction_type))
  \/ \E k \in RuleKeywords(KEYWORD_CATEGORY_RULES) : Contains(k, Lower(description))

\* category is what store-first classification gives
StoreFirst(store, description, transaction_type, category) ==
  IF \E f \in 1..Len(FamilyOrder) : FamilyMatches(f, store)
    THEN \E f \in 1..Len(FamilyOrder) :
           /\ FamilyMatches(f, store)
           /\ \A g \in 1..(f - 1) : ~FamilyMatches(g, store)
           /\ category = FamilyOrder[f]
  ELSE IF KeywordMatches(description, transaction_type)
    THEN category = categorize_by_keywords(description, transaction_type).val
  ELSE category = "Other Expense"

ClaimedFormats ==
  << <<"-", <<"Y", "m", "d">> >>, <<"/", <<"m", "d", "Y">> >>, <<"/", <<"m", "d", "y">> >>,
     <<"/", <<"d", "m", "Y">> >>, <<"/", <<"d", "m", "y">> >> >>

\* The k-th stated format accepts the text
Accepts(d, k) == Strptime(d, ClaimedFormats[k]).ok

\* date is the reading of d by the first stated format that accepts it
ReadByFirstFormat(d, date) ==
  \E k \in 1..Len(ClaimedFormats) :
    /\ Accepts(d, k)
    /\ \A j \in 1..(k - 1) : ~Accepts(d, j)
    /\ date = Strptime(d, ClaimedFormats[k]).val

\* The trimmed date text of the row, in the column the parser reads
DateText(row) ==
  IF SofiRan THEN CellText(row, "Date")
  ELSE IF CapitalOneRan THEN CellText(row, "Transaction Date")
  ELSE CellText(row, column_mapping.val.date_column.val)

\* C26: parse_date returns the interpretation given by the first format, in
\* the fixed order YYYY-MM-DD, MM/DD/YYYY, MM/DD/YY, DD/MM/YYYY, DD/MM/YY,
\* that accepts the string (a slash date valid both ways is read
\* month-first, day-first is used only when month-first is invalid); a
\* string accepted by no format raises an error that skips only that row.
C26_FirstFormatWins ==
  /\ pc = "raised" => idx = 0
  /\ pc = "returned" =>
       \A i \in 1..idx :
         /\ Emits(i) => ReadByFirstFormat(DateText(rows[i]), TxnOf(i).date)
         /\ (\A k \in 1..Len(ClaimedFormats) : ~Accepts(DateText(rows[i]), k)) =>
              (~Emits(i) /\ transactions = RowResults(idx))

\* A slash date that the month-first formats reject, read day-first
C26_Witness ==
  /\ pc = "returned"
  /\ idx = 2
  /\ DateText(rows[1]) = "13/01/2024"
  /\ ~Accepts(DateText(rows[1]), 2)
  /\ Emits(1)
  /\ TxnOf(1).date = [year |-> 2024, month |-> 1, day |-> 13]

\* A date valid both ways is read month-first; a date no format accepts
\* costs its own row only
DateExamples ==
  (pc = "returned" /\ content \in DateCsvs) =>
    /\ DateText(rows[1]) = "01/02/2024" =>
         (Emits(1) /\ TxnOf(1).date = [year |-> 2024, month |-> 1, day |-> 2])
    /\ DateText(rows[1]) = "12/31/69" =>
         (Emits(1) /\ TxnOf(1).date = [year |-> 1969, month |-> 12, day |-> 31])
    /\ DateText(rows[1]) \in {"30/02/2024", "2024/01/02", "Jan 2 2024", "02/29/2023"} =>
         (outcomes[1].kind = "except" /\ Emits(2) /\ Len(transactions) = 1)

\* ---- C27 ---------------------------------------------------------------

\* C27: for every transaction emitted by any parser, type and category are
\* on the same side: type = "income" if and only if suggested_category is a
\* member of INCOME_CATEGORIES (type = get_transaction_type of the category);
\* an income-typed row with no rule match receives "Other Income".
C27_TypeAndCategoryAgree ==
  \A i \in 1..Len(transactions) :
    /\ transactions[i].type = "income" <=>
         transactions[i].suggested_category \in Range(INCOME_CATEGORIES)
    /\ transactions[i].type = get_transaction_type(transactions[i].suggested_category)

\* What the parsers emit for a row no rule matches, whatever its type
UnmatchedRowIsOtherExpense ==
  \A i \in 1..Len(transactions) :
    (transactions[i].store = "Acme" /\ transactions[i].original_type \in {"Debit Card", "Merchandise"}) =>
      transactions[i].suggested_category = "Other Expense"

\* ---- C28 ---------------------------------------------------------------

\* The description the parser hands to the classifier for the row
DescriptionText(row) ==
  IF GenericRan THEN MappedText(row, column_mapping.val.description_column)
  ELSE CellText(row, "Description")

\* The type hint the parser hands to the classifier for the row
HintText(row) ==
  IF SofiRan THEN CellText(row, "Type")
  ELSE IF CapitalOneRan THEN CellText(row, "Category")
  ELSE ""

\* The normalized suggestion for the row, given the store the parser found
Suggested(row, store) ==
  normalize_category(suggest_category(store, DescriptionText(row), HintText(row)))

\* C28: in all three parsers the backup classifier and the final
\* "Other"/"Other Income" fallback are unreachable: for every row,
\* normalize_category(suggest_category(...)) is non-empty, so
\* backup_categorize is never invoked and the emitted suggested_category
\* always equals normalize_category(suggest_category(store, description,
\* type_hint)).
C28_BackupIsUnreachable ==
  pc = "returned" =>
    \A i \in 1..idx :
      IF Emits(i)
        THEN /\ TxnOf(i).suggested_category # ""
             /\ TxnOf(i).suggested_category = Suggested(rows[i], TxnOf(i).store)
      ELSE Suggested(rows[i], normalize_store(DescriptionText(rows[i]))) # ""

\* An income row that no rule matches and the backup classifier would call
\* "Other": it is emitted with the first classifier's default
C28_Witness ==
  /\ SofiRan
  /\ idx = 1
  /\ Emits(1)
  /\ TxnOf(1).type = "income"
  /\ TxnOf(1).store = "Acme"
  /\ backup_categorize("Acme", DescriptionText(rows[1]), "income") = "Other"
  /\ TxnOf(1).suggested_category = "Other Expense"

\* ---- C29 ---------------------------------------------------------------

\* The export has a row whose cell in the mapped date column is not blank
HasDatedRow(m) ==
  \E i \in 1..Len(DictReader(content)) : CellText(DictReader(content)[i], m.date_column.val) # ""

\* The mapping is for single-column mode and names no amount column
LacksAmount(m) == Mapped(m.date_column) /\ ~m.use_two_columns /\ ~Mapped(m.amount_column)

\* C29: parse_generic_csv rejects an incomplete column mapping for the whole
\* call: it fails with an error, rather than returning a transaction list,
\* whenever date_column is missing and, in single-column mode, whenever
\* amount_column is missing and the CSV has at least one row with a date.
C29_IncompleteMappingRejected ==
  (column_mapping.some /\ pc # "call") =>
    /\ ~Mapped(column_mapping.val.date_column) => pc = "raised"
    /\ (LacksAmount(column_mapping.val) /\ HasDatedRow(column_mapping.val)) => pc # "returned"

\* A mapping without date_column fails the call before any row is read
MissingDateColumnRaises ==
  (column_mapping.some /\ pc # "call" /\ ~Mapped(column_mapping.val.date_column)) =>
    (pc = "raised" /\ idx = 0 /\ transactions = <<>>)

\* A single-column mapping without amount_column costs every dated row, one
\* by one, and the call returns
MissingAmountColumnSkipsRows ==
  (column_mapping.some /\ LacksAmount(column_mapping.val)) =>
    /\ pc # "raised"
    /\ transactions = <<>>
    /\ \A i \in 1..idx :
         CellText(rows[i], column_mapping.val.date_column.val) # "" => outcomes[i].kind = "except"

\* ---- C30 ---------------------------------------------------------------

\* The database after the k-th request served
After(k) == IF k = Len(outcomes) THEN db ELSE outcomes[k + 1].before

\* The transactions of database d that reference upload session s
Referencing(d, s) ==
  { t \in DOMAIN d.transactions : d.transactions[t].upload_session_id = Some(s) }

\* x is the least and y the greatest date of the transactions ts of d
DateRange(d, ts, x, y) ==
  /\ \E t \in ts : d.transactions[t].transaction_date = x
  /\ \E t \in ts : d.transactions[t].transaction_date = y
  /\ \A t \in ts : x <= d.transactions[t].transaction_date /\ d.transactions[t].transaction_date <= y

\* In database d, session s counts the transactions that reference it and
\* spans their dates; it does not exist when none references it
SessionIsExact(d, s) ==
  IF Referencing(d, s) = {} THEN s \notin DOMAIN d.upload_sessions
  ELSE /\ s \in DOMAIN d.upload_sessions
       /\ d.upload_sessions[s].transaction_count = Cardinality(Referencing(d, s))
       /\ d.upload_sessions[s].min_transaction_date.some
       /\ d.upload_sessions[s].max_transaction_date.some
       /\ DateRange(d, Referencing(d, s), d.upload_sessions[s].min_transaction_date.val,
                     d.upload_sessions[s].max_transaction_date.val)

\* The upload sessions from which a served request deleted a transaction
DeletedFrom ==
  { s \in {1, 2} :
      \E k \in 1..Len(outcomes) :
        /\ outcomes[k].status = 200
        /\ s \in DOMAIN outcomes[k].before.upload_sessions
        /\ outcomes[k].before.transactions[outcomes[k].transaction_id].upload_session_id = Some(s) }

\* A request for a transaction of database b left database a: the
\* transaction is gone, the other transactions and the sessions it did not
\* reference are as before, and no session appeared
DeletedOnly(b, a, id) ==
  /\ DOMAIN a.transactions = DOMAIN b.transactions \ {id}
  /\ \A t \in DOMAIN a.transactions : a.transactions[t] = b.transactions[t]
  /\ DOMAIN a.upload_sessions \subseteq DOMAIN b.upload_sessions
  /\ \A s \in DOMAIN b.upload_sessions :
       b.transactions[id].upload_session_id # Some(s) =>
         (s \in DOMAIN a.upload_sessions /\ a.upload_sessions[s] = b.upload_sessions[s])

\* What the k-th request served did
RequestServed(k) ==
  IF outcomes[k].transaction_id \in DOMAIN outcomes[k].before.transactions
    THEN /\ outcomes[k].status = 200
         /\ DeletedOnly(outcomes[k].before, After(k), outcomes[k].transaction_id)
  ELSE /\ outcomes[k].status = 404
       /\ After(k) = outcomes[k].before

\* C30: after any sequence of successful delete_transaction calls, for every
\* upload session from which a transaction was deleted: if transactions
\* still reference it, its transaction_count equals their number and its
\* min/max_transaction_date equal the minimum/maximum of their dates; if none
\* remain, the session no longer exists; sessions and transactions of other
\* sessions are unchanged, and deleting an unknown transaction id returns
\* 404 and changes nothing.
C30_DeleteKeepsSessionExact ==
  pc = "serving" =>
    /\ \A s \in DeletedFrom : SessionIsExact(db, s)
    /\ \A k \in 1..Len(outcomes) : RequestServed(k)

\* Two transactions deleted from a session of three that was never updated,
\* the earliest and the latest: the session counts the one left; then the
\* same id again, which is unknown by now
C30_Witness ==
  /\ pc = "serving"
  /\ Len(outcomes) = 3
  /\ outcomes[1].before.upload_sessions[1] = UploadSession("bulk", 0, None, None)
  /\ Cardinality(Referencing(outcomes[1].before, 1)) = 3
  /\ outcomes[3].status = 404
  /\ db.upload_sessions[1] = UploadSession("bulk", 1, Some(20), Some(20))

====
